---- MODULE Spec2Model ----
(***************************************************************************)
(* Event ingestion pipeline of the Pinscore backend: the validation         *)
(* middleware, the event controller (single and batch ingestion, queries),  *)
(* the webhook controller and the Event model (createEvent, the pre hooks   *)
(* and the unique index on id).                                             *)
(*                                                                          *)
(* Encoding of JavaScript values:                                           *)
(*   - a missing (undefined/falsy) string field is the string ABSENT;       *)
(*   - a sub-object carries a `present` flag (FALSE = the key is missing);  *)
(*   - metrics.count is [kind, n]: kind "absent", "number" or "string";     *)
(*     numbers are integers, a negative one standing for every number that  *)
(*     is not an integer >= 0 (typeof "number", no validator in the schema);*)
(*   - timestamp is [kind, t]: kind "absent", "invalid" (unparseable) or    *)
(*     "date", t being the instant in days;                                 *)
(*   - ids are integers: NoId is a missing id, the k-th uuid drawn is k,    *)
(*     and negative numbers are strings a caller invented itself;           *)
(*   - time is counted in days, so that one year is 365.                    *)
(***************************************************************************)
EXTENDS Integers, Sequences, FiniteSets

(***************************************************************************)
(* Bounds of the model.                                                     *)
(***************************************************************************)
MaxEvents == 2        \* documents the collection may hold
MaxBatchLen == 2      \* length of the batches that are processed item by item
MaxTicks == 1         \* times the clock advances
MaxInflight == 2
MaxUuid == MaxEvents + 1   \* uuids that may be drawn
StartTime == 1000     \* the clock at start-up, in days

(***************************************************************************)
(* Program constants.                                                       *)
(***************************************************************************)
VALID_EVENT_TYPES ==
  {"engagement", "impression", "follow", "share", "comment", "save", "click"}

VALID_PLATFORMS ==
  {"twitter", "instagram", "tiktok", "youtube", "facebook", "threads"}

VALID_CONTENT_TYPES ==
  {"post", "video", "profile", "story", "reel", "short"}

VALID_SOURCES == {"api", "scraper", "manual", "webhook"}

MAX_BATCH_EVENTS == 1000

ONE_YEAR == 365

ABSENT == "absent"

NoId == 0

NoTime == 0

NoUser == "none"

\* a timestamp that parses to the instant t
Date(t) == [kind |-> "date", t |-> t]

(***************************************************************************)
(* The user directory (users collection): each user's identifiers on the    *)
(* platforms, addressed by the dotted path the queries use.                 *)
(***************************************************************************)
UserIds == {"u1", "u2"}

\* the strings that cast to an ObjectId: the _id of the user documents
ObjectIds == UserIds

UserPaths ==
  {"twitter.id", "instagram.id", "youtube.channelId", "facebook.id",
   "tiktok.id", "threads.id"}

Users ==
  [u \in UserIds |->
     [p \in UserPaths |->
        IF u = "u1" THEN "o1" ELSE IF p = "twitter.id" THEN "o2" ELSE ABSENT]]

\* User.findOne({[path]: value}): a user whose field at `path` equals value.
UserFindOne(path, value) ==
  LET hits == {u \in UserIds : path \in UserPaths /\ value # ABSENT
                               /\ Users[u][path] = value}
  IN IF hits = {} THEN NoUser ELSE CHOOSE u \in hits : TRUE

\* userSchema.eventStats: the defaults of a user document
NoEventStats ==
  [totalEvents |-> 0, platformBreakdown |-> [p \in VALID_PLATFORMS |-> 0],
   lastEventIngested |-> NoTime]

\* userSchema.methods.updateEventStats on the user document u (no handler
\* calls it)
updateEventStats(stats, u, platform, clock) ==
  [stats EXCEPT ![u] =
     [totalEvents |-> @.totalEvents + 1,
      platformBreakdown |->
        [@.platformBreakdown EXCEPT ![platform] = @ + 1],
      lastEventIngested |-> clock]]

VARIABLES
  events,      \* the events collection, in insertion order
  mintedFor,   \* mintedFor[i]: the uuid createEvent drew for events[i]
  nextUuid,    \* number of uuids drawn so far
  now,         \* the system clock
  ticks,       \* times the clock advanced
  lookups,     \* number of User.findOne calls made for the last request
  issued,      \* ids returned to callers so far
  itemLog,     \* the pushes of the last batch: <<index of the item, list>>
  env,         \* process.env: the configured secrets
  eventStats,  \* eventStats[u]: the rollup counters of the user document u
  inflight,    \* inflight[s]: the ingestion request being served in slot s
  origin,      \* origin[i]: <<slot, item>> of the draft that became events[i]
  req,         \* the request handled last (of a long batch, its size only)
  res          \* the response to it

vars ==
  <<events, mintedFor, nextUuid, now, ticks, lookups, issued, itemLog, env,
    eventStats, inflight, origin, req, res>>

(***************************************************************************)
(* Responses.                                                               *)
(***************************************************************************)
Response(status, field, message) ==
  [status |-> status, field |-> field, message |-> message,
   event_id |-> NoId, ingested_at |-> NoTime,
   successful |-> <<>>, failed |-> <<>>, data |-> <<>>, total |-> 0]

Next400(field, message) == [next |-> FALSE, res |-> Response(400, field, message)]

CallNext == [next |-> TRUE, res |-> Response(0, ABSENT, ABSENT)]

(***************************************************************************)
(* validateEvent middleware                                                 *)
(***************************************************************************)
\* validateEvent without the comparison of the timestamp with the clock
validateEventNoFutureCheck(event, clock) ==
  IF event.type = ABSENT
    THEN Next400("type", "Event type is required")
  ELSE IF event.type \notin VALID_EVENT_TYPES
    THEN Next400("type", "Invalid event type")
  ELSE IF event.platform = ABSENT
    THEN Next400("platform", "Platform is required")
  ELSE IF event.platform \notin VALID_PLATFORMS
    THEN Next400("platform", "Invalid platform")
  ELSE IF ~event.actor.present
    THEN Next400("actor", "Actor is required")
  ELSE IF event.actor.platform_user_id = ABSENT \/ event.actor.username = ABSENT
    THEN Next400("actor", "Actor must have platform_user_id and username")
  ELSE IF ~event.subject.present
    THEN Next400("subject", "Subject is required")
  ELSE IF \/ event.subject.content_id = ABSENT
          \/ event.subject.content_type = ABSENT
          \/ event.subject.owner_platform_id = ABSENT
    THEN Next400("subject",
                 "Subject must have content_id, content_type, and owner_platform_id")
  ELSE IF event.subject.content_type \notin VALID_CONTENT_TYPES
    THEN Next400("subject.content_type", "Invalid content_type")
  ELSE IF ~event.metrics.present
    THEN Next400("metrics", "Metrics is required")
  ELSE IF event.metrics.count.kind # "number"
    THEN Next400("metrics.count", "Metrics.count must be a number")
  ELSE IF ~event.metadata.present
    THEN Next400("metadata", "Metadata is required")
  ELSE IF event.metadata.source = ABSENT
    THEN Next400("metadata.source", "Metadata.source is required")
  ELSE IF event.metadata.source \notin VALID_SOURCES
    THEN Next400("metadata.source", "Invalid source")
  ELSE IF event.timestamp.kind = "absent"
    THEN Next400("timestamp", "Timestamp is required")
  ELSE IF event.timestamp.kind = "invalid"
    THEN Next400("timestamp", "Invalid timestamp format. Must be ISO8601")
  ELSE CallNext

\* validateEvent without the four enum checks
validateEventNoEnumCheck(event, clock) ==
  IF event.type = ABSENT
    THEN Next400("type", "Event type is required")
  ELSE IF event.platform = ABSENT
    THEN Next400("platform", "Platform is required")
  ELSE IF ~event.actor.present
    THEN Next400("actor", "Actor is required")
  ELSE IF event.actor.platform_user_id = ABSENT \/ event.actor.username = ABSENT
    THEN Next400("actor", "Actor must have platform_user_id and username")
  ELSE IF ~event.subject.present
    THEN Next400("subject", "Subject is required")
  ELSE IF \/ event.subject.content_id = ABSENT
          \/ event.subject.content_type = ABSENT
          \/ event.subject.owner_platform_id = ABSENT
    THEN Next400("subject",
                 "Subject must have content_id, content_type, and owner_platform_id")
  ELSE IF ~event.metrics.present
    THEN Next400("metrics", "Metrics is required")
  ELSE IF event.metrics.count.kind # "number"
    THEN Next400("metrics.count", "Metrics.count must be a number")
  ELSE IF ~event.metadata.present
    THEN Next400("metadata", "Metadata is required")
  ELSE IF event.metadata.source = ABSENT
    THEN Next400("metadata.source", "Metadata.source is required")
  ELSE IF event.timestamp.kind = "absent"
    THEN Next400("timestamp", "Timestamp is required")
  ELSE IF event.timestamp.kind = "invalid"
    THEN Next400("timestamp", "Invalid timestamp format. Must be ISO8601")
  ELSE IF event.timestamp.t > clock
    THEN Next400("timestamp", "Timestamp cannot be in the future")
  ELSE CallNext

validateEvent(event, clock) ==
  IF event.type = ABSENT
    THEN Next400("type", "Event type is required")
  ELSE IF event.type \notin VALID_EVENT_TYPES
    THEN Next400("type", "Invalid event type")
  ELSE IF event.platform = ABSENT
    THEN Next400("platform", "Platform is required")
  ELSE IF event.platform \notin VALID_PLATFORMS
    THEN Next400("platform", "Invalid platform")
  ELSE IF ~event.actor.present
    THEN Next400("actor", "Actor is required")
  ELSE IF event.actor.platform_user_id = ABSENT \/ event.actor.username = ABSENT
    THEN Next400("actor", "Actor must have platform_user_id and username")
  ELSE IF ~event.subject.present
    THEN Next400("subject", "Subject is required")
  ELSE IF \/ event.subject.content_id = ABSENT
          \/ event.subject.content_type = ABSENT
          \/ event.subject.owner_platform_id = ABSENT
    THEN Next400("subject",
                 "Subject must have content_id, content_type, and owner_platform_id")
  ELSE IF event.subject.content_type \notin VALID_CONTENT_TYPES
    THEN Next400("subject.content_type", "Invalid content_type")
  ELSE IF ~event.metrics.present
    THEN Next400("metrics", "Metrics is required")
  ELSE IF event.metrics.count.kind # "number"
    THEN Next400("metrics.count", "Metrics.count must be a number")
  ELSE IF ~event.metadata.present
    THEN Next400("metadata", "Metadata is required")
  ELSE IF event.metadata.source = ABSENT
    THEN Next400("metadata.source", "Metadata.source is required")
  ELSE IF event.metadata.source \notin VALID_SOURCES
    THEN Next400("metadata.source", "Invalid source")
  ELSE IF event.timestamp.kind = "absent"
    THEN Next400("timestamp", "Timestamp is required")
  ELSE IF event.timestamp.kind = "invalid"
    THEN Next400("timestamp", "Invalid timestamp format. Must be ISO8601")
  ELSE IF event.timestamp.t > clock
    THEN Next400("timestamp", "Timestamp cannot be in the future")
  ELSE CallNext

\* utils: validateEventTime (no handler calls it)
validateEventTime(timestamp, clock) ==
  IF timestamp > clock
    THEN [valid |-> FALSE, error |-> "Event timestamp cannot be in the future"]
  ELSE IF timestamp < clock - ONE_YEAR
    THEN [valid |-> FALSE, error |-> "Event timestamp cannot be older than 1 year"]
  ELSE [valid |-> TRUE, error |-> ABSENT]

(***************************************************************************)
(* Event schema: document construction, validation, hooks and the store.    *)
(***************************************************************************)
NoError == [name |-> ABSENT, message |-> ABSENT, paths |-> {}]

ImmutableSaveMessage == "Events are immutable. Cannot update existing events."

ImmutableUpdateMessage == "Events are immutable. Use versioning for corrections."

\* String.prototype.includes("immutable") on the error messages of the model
IncludesImmutable(message) ==
  message \in {ImmutableSaveMessage, ImmutableUpdateMessage}

\* SchemaErrors of a schema whose four enum paths are required, not enums
SchemaErrorsNoEnum(eventData) ==
  (IF eventData.type = ABSENT THEN {"type"} ELSE {})
  \cup (IF eventData.platform = ABSENT THEN {"platform"} ELSE {})
  \cup (IF ~eventData.actor.present THEN {"actor"}
        ELSE {p \in {"actor.platform_user_id", "actor.username"} :
                \/ p = "actor.platform_user_id" /\ eventData.actor.platform_user_id = ABSENT
                \/ p = "actor.username" /\ eventData.actor.username = ABSENT})
  \cup (IF ~eventData.subject.present THEN {"subject"}
        ELSE {p \in {"subject.content_id", "subject.content_type",
                     "subject.owner_platform_id"} :
                \/ p = "subject.content_id" /\ eventData.subject.content_id = ABSENT
                \/ p = "subject.content_type"
                     /\ eventData.subject.content_type = ABSENT
                \/ p = "subject.owner_platform_id"
                     /\ eventData.subject.owner_platform_id = ABSENT})
  \cup (IF ~eventData.metrics.present THEN {"metrics"}
        ELSE IF eventData.metrics.count.kind = "string" THEN {"metrics.count"}
        ELSE {})
  \cup (IF ~eventData.metadata.present THEN {"metadata"}
        ELSE IF eventData.metadata.source = ABSENT
          THEN {"metadata.source"}
        ELSE {})
  \cup (IF eventData.timestamp.kind # "date" THEN {"timestamp"} ELSE {})
  \cup (IF eventData.pinscore_user_id \notin ObjectIds \cup {NoUser}
          THEN {"pinscore_user_id"}
        ELSE {})

\* Paths of the event schema that fail validation (required, enum, cast) for
\* a document built from eventData.
SchemaErrors(eventData) ==
  (IF eventData.type \notin VALID_EVENT_TYPES THEN {"type"} ELSE {})
  \cup (IF eventData.platform \notin VALID_PLATFORMS THEN {"platform"} ELSE {})
  \cup (IF ~eventData.actor.present THEN {"actor"}
        ELSE {p \in {"actor.platform_user_id", "actor.username"} :
                \/ p = "actor.platform_user_id" /\ eventData.actor.platform_user_id = ABSENT
                \/ p = "actor.username" /\ eventData.actor.username = ABSENT})
  \cup (IF ~eventData.subject.present THEN {"subject"}
        ELSE {p \in {"subject.content_id", "subject.content_type",
                     "subject.owner_platform_id"} :
                \/ p = "subject.content_id" /\ eventData.subject.content_id = ABSENT
                \/ p = "subject.content_type"
                     /\ eventData.subject.content_type \notin VALID_CONTENT_TYPES
                \/ p = "subject.owner_platform_id"
                     /\ eventData.subject.owner_platform_id = ABSENT})
  \cup (IF ~eventData.metrics.present THEN {"metrics"}
        ELSE IF eventData.metrics.count.kind = "string" THEN {"metrics.count"}
        ELSE {})
  \cup (IF ~eventData.metadata.present THEN {"metadata"}
        ELSE IF eventData.metadata.source \notin VALID_SOURCES
          THEN {"metadata.source"}
        ELSE {})
  \cup (IF eventData.timestamp.kind # "date" THEN {"timestamp"} ELSE {})
  \cup (IF eventData.pinscore_user_id \notin ObjectIds \cup {NoUser}
          THEN {"pinscore_user_id"}
        ELSE {})

\* NewEvent with ingested_at written before the spread of eventData
NewEventIngestedAtFirst(eventData, uuid, clock) ==
  [id |-> IF eventData.id # NoId THEN eventData.id ELSE uuid,
   type |-> eventData.type,
   platform |-> eventData.platform,
   actor |-> [platform_user_id |-> eventData.actor.platform_user_id,
              username |-> eventData.actor.username],
   subject |-> [content_id |-> eventData.subject.content_id,
                content_type |-> eventData.subject.content_type,
                owner_platform_id |-> eventData.subject.owner_platform_id],
   metrics |-> [count |-> IF eventData.metrics.count.kind = "absent" THEN 1
                          ELSE eventData.metrics.count.n],
   metadata |-> [source |-> eventData.metadata.source,
                 raw_event_id |-> eventData.metadata.raw_event_id],
   timestamp |-> eventData.timestamp.t,
   ingested_at |-> IF eventData.ingested_at # NoTime THEN eventData.ingested_at
                   ELSE clock,
   pinscore_user_id |-> eventData.pinscore_user_id]

\* new Event({ id: `evt_${uuidv4()}`, ...eventData, ingested_at: new Date() })
NewEvent(eventData, uuid, clock) ==
  [id |-> IF eventData.id # NoId THEN eventData.id ELSE uuid,
   type |-> eventData.type,
   platform |-> eventData.platform,
   actor |-> [platform_user_id |-> eventData.actor.platform_user_id,
              username |-> eventData.actor.username],
   subject |-> [content_id |-> eventData.subject.content_id,
                content_type |-> eventData.subject.content_type,
                owner_platform_id |-> eventData.subject.owner_platform_id],
   metrics |-> [count |-> IF eventData.metrics.count.kind = "absent" THEN 1
                          ELSE eventData.metrics.count.n],
   metadata |-> [source |-> eventData.metadata.source,
                 raw_event_id |-> eventData.metadata.raw_event_id],
   timestamp |-> eventData.timestamp.t,
   ingested_at |-> clock,
   pinscore_user_id |-> eventData.pinscore_user_id]

\* unique index on id
DuplicateKey(id, coll) == \E i \in 1..Len(coll) : coll[i].id = id

\* InsertOne on a collection without the unique index
InsertOneNoIndex(doc, coll) ==
  [ok |-> TRUE, error |-> NoError, coll |-> Append(coll, doc)]

\* InsertOne that overwrites the document holding the id (an upsert)
InsertOneUpsert(doc, coll) ==
  [ok |-> TRUE, error |-> NoError,
   coll |-> IF DuplicateKey(doc.id, coll)
              THEN [i \in 1..Len(coll) |-> IF coll[i].id = doc.id THEN doc
                                           ELSE coll[i]]
            ELSE Append(coll, doc)]

\* InsertOne on a collection with a second unique index, on the platform and
\* the platform's native event id
InsertOneDedup(doc, coll) ==
  IF DuplicateKey(doc.id, coll)
       \/ \E i \in 1..Len(coll) :
            /\ coll[i].platform = doc.platform
            /\ coll[i].metadata.raw_event_id = doc.metadata.raw_event_id
    THEN [ok |-> FALSE,
          error |-> [name |-> "MongoServerError",
                     message |-> "E11000 duplicate key error", paths |-> {"id"}],
          coll |-> coll]
  ELSE [ok |-> TRUE, error |-> NoError, coll |-> Append(coll, doc)]

\* the insert that document.save() issues for a new document
InsertOne(doc, coll) ==
  IF DuplicateKey(doc.id, coll)
    THEN [ok |-> FALSE,
          error |-> [name |-> "MongoServerError",
                     message |-> "E11000 duplicate key error", paths |-> {"id"}],
          coll |-> coll]
  ELSE [ok |-> TRUE, error |-> NoError, coll |-> Append(coll, doc)]

\* pre("save") hook
PreSave(isNew) ==
  IF ~isNew
    THEN [name |-> "Error", message |-> ImmutableSaveMessage, paths |-> {}]
  ELSE NoError

\* eventSchema.statics.createEvent
createEvent(eventData, uuid, clock, coll) ==
  LET errs == SchemaErrors(eventData)
      hook == PreSave(TRUE)
  IN IF errs # {}
       THEN [ok |-> FALSE,
             error |-> [name |-> "ValidationError",
                        message |-> "Event validation failed", paths |-> errs],
             coll |-> coll]
     ELSE IF hook # NoError
       THEN [ok |-> FALSE, error |-> hook, coll |-> coll]
     ELSE InsertOne(NewEvent(eventData, uuid, clock), coll)

(***************************************************************************)
(* Event controller                                                         *)
(***************************************************************************)
Range(seq) == {seq[i] : i \in 1..Len(seq)}

Last(seq) == seq[Len(seq)]

\* the filter key `${eventData.platform}.id`
PlatformIdPath(platform) == platform \o ".id"

\* requiredFields.filter(field => !eventData[field])
MissingFields(eventData) ==
  (IF eventData.type = ABSENT THEN {"type"} ELSE {})
  \cup (IF eventData.platform = ABSENT THEN {"platform"} ELSE {})
  \cup (IF ~eventData.actor.present THEN {"actor"} ELSE {})
  \cup (IF ~eventData.subject.present THEN {"subject"} ELSE {})
  \cup (IF ~eventData.metrics.present THEN {"metrics"} ELSE {})
  \cup (IF ~eventData.metadata.present THEN {"metadata"} ELSE {})
  \cup (IF eventData.timestamp.kind = "absent" THEN {"timestamp"} ELSE {})

\* eventData.subject?.owner_platform_id is truthy
HasOwner(eventData) ==
  eventData.subject.present /\ eventData.subject.owner_platform_id # ABSENT

\* the owner lookup and the assignment eventData.pinscore_user_id = user._id
Attribute(eventData) ==
  LET user == UserFindOne(PlatformIdPath(eventData.platform),
                          eventData.subject.owner_platform_id)
  IN IF HasOwner(eventData) /\ user # NoUser
       THEN [eventData EXCEPT !.pinscore_user_id = user]
     ELSE eventData

\* ingestEvent: the outcome of the controller for one request body;
\* directory is "up", or "down" when the query User.findOne rejects (the
\* await of the query is inside the try block of the handler)
ingestEvent(body, uuid, clock, coll, directory) ==
  IF MissingFields(body) # {}
    THEN [res |-> Response(400, ABSENT, "Missing required fields"),
          coll |-> coll, drawn |-> 0, lookups |-> 0, created |-> FALSE]
  ELSE IF HasOwner(body) /\ directory = "down"
    THEN [res |-> Response(500, ABSENT, "Failed to ingest event"),
          coll |-> coll, drawn |-> 0, lookups |-> 1, created |-> FALSE]
  ELSE
    LET eventData == Attribute(body)
        r == createEvent(eventData, uuid, clock, coll)
        n == IF HasOwner(body) THEN 1 ELSE 0
    IN IF r.ok
         THEN [res |-> [Response(201, ABSENT, "Event ingested successfully")
                          EXCEPT !.event_id = Last(r.coll).id,
                                 !.ingested_at = Last(r.coll).ingested_at],
               coll |-> r.coll, drawn |-> 1, lookups |-> n, created |-> TRUE]
       ELSE IF IncludesImmutable(r.error.message)
         THEN [res |-> Response(403, ABSENT,
                                "Events are immutable and cannot be modified"),
               coll |-> coll, drawn |-> 1, lookups |-> n, created |-> FALSE]
       ELSE [res |-> Response(500, ABSENT, "Failed to ingest event"),
             coll |-> coll, drawn |-> 1, lookups |-> n, created |-> FALSE]


(***************************************************************************)
(* Batch ingestion                                                          *)
(***************************************************************************)
\* validateBatchEvents without the limit on the number of events
validateBatchEventsNoLimit(body) ==
  IF ~body.isArray
    THEN Next400(ABSENT, "Events must be an array")
  ELSE IF Len(body.events) = 0
    THEN Next400(ABSENT, "Events array cannot be empty")
  ELSE IF \E i \in 1..Len(body.events) : MissingFields(body.events[i]) # {}
    THEN Next400(ABSENT, "Event is missing required fields")
  ELSE CallNext

\* validateBatchEvents middleware; body = [isArray, events]
validateBatchEvents(body) ==
  IF ~body.isArray
    THEN Next400(ABSENT, "Events must be an array")
  ELSE IF Len(body.events) = 0
    THEN Next400(ABSENT, "Events array cannot be empty")
  ELSE IF Len(body.events) > MAX_BATCH_EVENTS
    THEN Next400(ABSENT, "Cannot process more than 1000 events at once")
  ELSE IF \E i \in 1..Len(body.events) : MissingFields(body.events[i]) # {}
    THEN Next400(ABSENT, "Event is missing required fields")
  ELSE CallNext

\* BatchItem with a catch block that drops the item that failed
BatchItemDropsFailed(acc, item, index, clock) ==
  LET eventData == Attribute(item)
      uuid == acc.uuid + 1
      r == createEvent(eventData, uuid, clock, acc.coll)
  IN [coll |-> r.coll,
      uuid |-> uuid,
      lookups |-> acc.lookups + (IF HasOwner(item) THEN 1 ELSE 0),
      minted |-> IF r.ok THEN Append(acc.minted, uuid) ELSE acc.minted,
      successful |-> IF r.ok THEN Append(acc.successful, Last(r.coll).id)
                     ELSE acc.successful,
      failed |-> acc.failed,
      log |-> IF r.ok THEN Append(acc.log, <<index, "successful">>) ELSE acc.log]

\* one iteration of the loop of batchIngestEvents (the try block and its
\* catch) on the item at `index`
BatchItem(acc, item, index, clock) ==
  LET eventData == Attribute(item)
      uuid == acc.uuid + 1
      r == createEvent(eventData, uuid, clock, acc.coll)
  IN [coll |-> r.coll,
      uuid |-> uuid,
      lookups |-> acc.lookups + (IF HasOwner(item) THEN 1 ELSE 0),
      minted |-> IF r.ok THEN Append(acc.minted, uuid) ELSE acc.minted,
      successful |-> IF r.ok THEN Append(acc.successful, Last(r.coll).id)
                     ELSE acc.successful,
      failed |-> IF r.ok THEN acc.failed
                 ELSE Append(acc.failed,
                             [event |-> eventData, error |-> r.error.message]),
      log |-> Append(acc.log, <<index, IF r.ok THEN "successful" ELSE "failed">>)]

\* for (const eventData of events): the items lo..hi in order.  The range is
\* halved and the first half is completed (each iteration awaits its
\* createEvent) before the second half starts, which keeps the evaluation
\* depth logarithmic in the number of items.
RECURSIVE BatchLoop(_, _, _, _, _)
BatchLoop(items, lo, hi, acc, clock) ==
  IF lo > hi THEN acc
  ELSE IF lo = hi THEN BatchItem(acc, items[lo], lo, clock)
  ELSE LET mid == (lo + hi) \div 2
           firstHalf == BatchLoop(items, lo, mid, acc, clock)
       IN IF firstHalf.uuid >= acc.uuid
            THEN BatchLoop(items, mid + 1, hi, firstHalf, clock)
          ELSE firstHalf

\* batchIngestEvents: the outcome of the controller for one request body
batchIngestEvents(body, uuid, clock, coll) ==
  LET start == [coll |-> coll, uuid |-> uuid, lookups |-> 0, minted |-> <<>>,
                successful |-> <<>>, failed |-> <<>>, log |-> <<>>]
  IN IF ~body.isArray \/ Len(body.events) = 0
       THEN [res |-> Response(400, ABSENT,
                              "Events array is required and must not be empty"),
             acc |-> start]
     ELSE LET acc == BatchLoop(body.events, 1, Len(body.events), start, clock)
          IN [res |-> [Response(201, ABSENT, "Ingested events")
                         EXCEPT !.successful = acc.successful,
                                !.failed = acc.failed],
              acc |-> acc]


(***************************************************************************)
(* Queries                                                                  *)
(***************************************************************************)
\* authenticateToken middleware; token is "none", "bad" or a user id
authenticateToken(token) ==
  IF token = "none"
    THEN [next |-> FALSE,
          res |-> Response(401, ABSENT, "Access denied: Missing or malformed token")]
  ELSE IF token = "bad"
    THEN [next |-> FALSE, res |-> Response(401, ABSENT, "Invalid or expired token")]
  ELSE CallNext

\* .sort({ timestamp: -1 }) over the documents at the indexes in I
RECURSIVE SortByTimestampDesc(_, _)
SortByTimestampDesc(coll, I) ==
  IF I = {} THEN <<>>
  ELSE LET first == CHOOSE i \in I :
                      \A j \in I : \/ coll[i].timestamp > coll[j].timestamp
                                   \/ coll[i].timestamp = coll[j].timestamp /\ i <= j
       IN <<coll[first]>> \o SortByTimestampDesc(coll, I \ {first})

\* .limit(limit).skip(skip)
LimitSkip(seq, limit, skip) ==
  SubSeq(seq, skip + 1, IF skip + limit < Len(seq) THEN skip + limit ELSE Len(seq))

\* the timestamp range of a query; NoTime is a missing startDate / endDate
InRange(e, startDate, endDate) ==
  /\ startDate # NoTime => e.timestamp >= startDate
  /\ endDate # NoTime => e.timestamp <= endDate

\* getEventsByPlatform
getEventsByPlatform(platform, startDate, endDate, limit, page, coll) ==
  LET Query(e) == e.platform = platform /\ InRange(e, startDate, endDate)
      found == SortByTimestampDesc(coll, {i \in 1..Len(coll) : Query(coll[i])})
  IN [Response(200, ABSENT, ABSENT)
        EXCEPT !.data = LimitSkip(found, limit, (page - 1) * limit),
               !.total = Len(found)]

\* getEventsByUser
getEventsByUser(userId, platform, startDate, endDate, limit, coll) ==
  LET Query(e) == /\ e.pinscore_user_id = userId
                  /\ platform # ABSENT => e.platform = platform
                  /\ InRange(e, startDate, endDate)
      found == SortByTimestampDesc(coll, {i \in 1..Len(coll) : Query(coll[i])})
  IN IF userId \notin UserIds
       THEN Response(404, ABSENT, "User not found")
     ELSE [Response(200, ABSENT, ABSENT) EXCEPT !.data = LimitSkip(found, limit, 0)]

\* getEventsSummary: the controller never imports mongoose, so building the
\* match stage throws and the catch block answers
getEventsSummary(userId, coll) ==
  Response(500, ABSENT, "Failed to generate summary")

\* getEventById
getEventById(eventId, coll) ==
  LET Query(e) == e.id = eventId
      found == {i \in 1..Len(coll) : Query(coll[i])}
  IN IF found = {}
       THEN Response(404, ABSENT, "Event not found")
     ELSE [Response(200, ABSENT, ABSENT)
             EXCEPT !.data = <<coll[CHOOSE i \in found : \A j \in found : i <= j]>>]


(***************************************************************************)
(* Webhook controller                                                       *)
(***************************************************************************)
\* user.youtube.channelName
ChannelName(user) == IF user = "u1" THEN "channel one" ELSE ABSENT

\* x || y
OrElse(x, y) == IF x # ABSENT THEN x ELSE y

\* state threaded through a handler: the collection, the uuids drawn, the
\* lookups made, the uuids of the created events, and whether it threw
Running(coll, uuid) ==
  [coll |-> coll, uuid |-> uuid, lookups |-> 0, minted |-> <<>>, thrown |-> FALSE]

\* await Event.createEvent(eventData) inside a handler
AwaitCreate(acc, eventData, clock) ==
  LET r == createEvent(eventData, acc.uuid + 1, clock, acc.coll)
  IN [acc EXCEPT !.coll = r.coll,
                 !.uuid = acc.uuid + 1,
                 !.minted = IF r.ok THEN Append(acc.minted, acc.uuid + 1)
                            ELSE acc.minted,
                 !.thrown = ~r.ok]

\* the object literal a webhook handler passes to Event.createEvent
WebhookDraft(type, platform, actorId, username, contentId, contentType, owner, rawEventId, t, user) ==
  [id |-> NoId,
   type |-> type,
   platform |-> platform,
   actor |-> [present |-> TRUE, platform_user_id |-> actorId, username |-> username],
   subject |-> [present |-> TRUE, content_id |-> contentId,
                content_type |-> contentType, owner_platform_id |-> owner],
   metrics |-> [present |-> TRUE, count |-> [kind |-> "number", n |-> 1]],
   metadata |-> [present |-> TRUE, source |-> "webhook",
                 raw_event_id |-> rawEventId],
   timestamp |-> Date(t),
   ingested_at |-> NoTime,
   pinscore_user_id |-> user]

WebhookError == Response(500, ABSENT, "Webhook processing failed")

\* handleYouTubeWebhook
handleYouTubeWebhook(method, query, notification, uuid, clock, coll) ==
  LET start == Running(coll, uuid)
      user == UserFindOne("youtube.channelId", notification.channelId)
      looked == [start EXCEPT !.lookups = 1]
      done == AwaitCreate(looked,
                WebhookDraft("impression", "youtube", notification.channelId,
                             OrElse(ChannelName(user), "unknown"),
                             notification.videoId, "video", notification.channelId,
                             notification.videoId, clock, user),
                clock)
  IN IF method = "GET" /\ query.challenge # ABSENT
       THEN [res |-> Response(200, ABSENT, query.challenge), acc |-> start]
     ELSE IF user = NoUser
       THEN [res |-> Response(200, ABSENT, "OK"), acc |-> looked]
     ELSE IF done.thrown
       THEN [res |-> WebhookError, acc |-> done]
     ELSE [res |-> Response(200, ABSENT, "OK"), acc |-> done]

\* the event type an Instagram change field maps to
InstagramEventType(field) ==
  IF field = "follows" THEN "follow"
  ELSE IF field = "comments" THEN "comment"
  ELSE "engagement"

\* one iteration of the loop over entry.changes
InstagramChange(acc, userId, user, change, clock) ==
  LET value == change.value
  IN IF value.created_time.kind # "number"
       THEN [acc EXCEPT !.thrown = TRUE]      \* toISOString of an invalid date
     ELSE AwaitCreate(acc,
            WebhookDraft(InstagramEventType(change.field), "instagram",
                         OrElse(value.from.id, "unknown"),
                         OrElse(value.from.username, "unknown"),
                         OrElse(value.media_id, userId),
                         OrElse(value.media_type, "post"),
                         userId, value.id, value.created_time.t, user),
            clock)

\* the loop over entry.changes with each createEvent in a try/catch of its own
RECURSIVE InstagramChangesResuming(_, _, _, _, _, _)
InstagramChangesResuming(acc, userId, user, changes, k, clock) ==
  IF k > Len(changes) THEN acc
  ELSE LET step == InstagramChange([acc EXCEPT !.thrown = FALSE], userId, user,
                                   changes[k], clock)
       IN InstagramChangesResuming(
            [step EXCEPT !.thrown = acc.thrown \/ step.thrown],
            userId, user, changes, k + 1, clock)

RECURSIVE InstagramChanges(_, _, _, _, _, _)
InstagramChanges(acc, userId, user, changes, k, clock) ==
  IF acc.thrown \/ k > Len(changes) THEN acc
  ELSE InstagramChanges(InstagramChange(acc, userId, user, changes[k], clock),
                        userId, user, changes, k + 1, clock)

\* the loop over body.entry, from entry k on
RECURSIVE InstagramEntries(_, _, _, _)
InstagramEntries(acc, entry, k, clock) ==
  IF acc.thrown \/ k > Len(entry) THEN acc
  ELSE LET userId == entry[k].id
           user == UserFindOne("instagram.id", userId)
           looked == [acc EXCEPT !.lookups = acc.lookups + 1]
       IN InstagramEntries(
            IF user = NoUser THEN looked
            ELSE InstagramChanges(looked, userId, user, entry[k].changes, 1, clock),
            entry, k + 1, clock)

\* handleInstagramWebhook
handleInstagramWebhook(method, query, body, verifyToken, uuid, clock, coll) ==
  LET start == Running(coll, uuid)
      done == InstagramEntries(start, body.entry, 1, clock)
  IN IF method = "GET"
       THEN IF query.mode = "subscribe" /\ query.verify_token = verifyToken
              THEN [res |-> Response(200, ABSENT, query.challenge), acc |-> start]
            ELSE [res |-> Response(403, ABSENT, "Forbidden"), acc |-> start]
     ELSE IF body.object # "instagram"
       THEN [res |-> Response(200, ABSENT, "EVENT_RECEIVED"), acc |-> start]
     ELSE IF done.thrown
       THEN [res |-> WebhookError, acc |-> done]
     ELSE [res |-> Response(200, ABSENT, "EVENT_RECEIVED"), acc |-> done]

\* crypto.createHmac("sha256", secret).update(token).digest("base64")
HmacBase64(secret, token) == "hmac-sha256(" \o secret \o "," \o token \o ")"

\* the loop body without `if (!user) continue;`
TwitterFavoriteUnchecked(acc, event, clock) ==
  LET owner == event.favorited_status.user_id_str
      user == UserFindOne("twitter.id", owner)
      looked == [acc EXCEPT !.lookups = acc.lookups + 1]
  IN IF ~event.favorited_status.present
       THEN [acc EXCEPT !.thrown = TRUE]
     ELSE IF event.created_at.kind # "date"
       THEN [looked EXCEPT !.thrown = TRUE]
     ELSE AwaitCreate(looked,
            WebhookDraft("engagement", "twitter", event.user.id_str,
                         event.user.screen_name, event.favorited_status.id_str,
                         "post", owner, event.favorited_status.id_str,
                         event.created_at.t, user),
            clock)

\* one iteration of the loop over body.favorite_events
TwitterFavorite(acc, event, clock) ==
  LET owner == event.favorited_status.user_id_str
      user == UserFindOne("twitter.id", owner)
      looked == [acc EXCEPT !.lookups = acc.lookups + 1]
  IN IF ~event.favorited_status.present
       THEN [acc EXCEPT !.thrown = TRUE]      \* property of undefined
     ELSE IF user = NoUser THEN looked
     ELSE IF event.created_at.kind # "date"
       THEN [looked EXCEPT !.thrown = TRUE]   \* toISOString of an invalid date
     ELSE AwaitCreate(looked,
            WebhookDraft("engagement", "twitter", event.user.id_str,
                         event.user.screen_name, event.favorited_status.id_str,
                         "post", owner, event.favorited_status.id_str,
                         event.created_at.t, user),
            clock)

RECURSIVE TwitterFavorites(_, _, _, _)
TwitterFavorites(acc, favorites, k, clock) ==
  IF acc.thrown \/ k > Len(favorites) THEN acc
  ELSE TwitterFavorites(TwitterFavorite(acc, favorites[k], clock),
                        favorites, k + 1, clock)

\* handleTwitterWebhook
handleTwitterWebhook(method, query, body, consumerSecret, uuid, clock, coll) ==
  LET start == Running(coll, uuid)
      done == TwitterFavorites(start, body.favorite_events, 1, clock)
  IN IF method = "GET" /\ query.crc_token # ABSENT
       THEN IF consumerSecret = ABSENT
              THEN [res |-> WebhookError, acc |-> start]   \* createHmac throws
            ELSE [res |-> Response(200, ABSENT,
                                   "sha256=" \o HmacBase64(consumerSecret,
                                                           query.crc_token)),
                  acc |-> start]
     ELSE IF ~body.has_favorite_events
       THEN [res |-> Response(200, ABSENT, "OK"), acc |-> start]
     ELSE IF done.thrown
       THEN [res |-> WebhookError, acc |-> done]
     ELSE [res |-> Response(200, ABSENT, "OK"), acc |-> done]

(***************************************************************************)
(* Social controller: events created from the statistics an API pull        *)
(* returns.                                                                 *)
(***************************************************************************)
\* the object literals createYouTubeEvents pushes; count is parseInt(stat)
AggregateDraft(type, username, channelId, count, rawEventId, t, user) ==
  [id |-> NoId,
   type |-> type,
   platform |-> "youtube",
   actor |-> [present |-> TRUE, platform_user_id |-> "aggregate",
              username |-> username],
   subject |-> [present |-> TRUE, content_id |-> channelId,
                content_type |-> "profile", owner_platform_id |-> channelId],
   metrics |-> [present |-> TRUE, count |-> [kind |-> "number", n |-> count]],
   metadata |-> [present |-> TRUE, source |-> "api", raw_event_id |-> rawEventId],
   timestamp |-> Date(t),
   ingested_at |-> NoTime,
   pinscore_user_id |-> user]

\* the array `events` of createYouTubeEvents
YouTubeStatsEvents(user, stats, channelId, clock) ==
  (IF stats.viewCount > 0
     THEN <<AggregateDraft("impression", "youtube_viewers", channelId,
                           stats.viewCount, "yt_views", clock, user)>>
   ELSE <<>>)
  \o (IF stats.subscriberCount > 0
        THEN <<AggregateDraft("follow", "youtube_subscribers", channelId,
                              stats.subscriberCount, "yt_subs", clock, user)>>
      ELSE <<>>)
  \o (IF stats.commentCount > 0
        THEN <<AggregateDraft("comment", "youtube_commenters", channelId,
                              stats.commentCount, "yt_comments", clock, user)>>
      ELSE <<>>)

\* Promise.all(events.map(eventData => Event.createEvent(eventData))): every
\* createEvent is started, whether or not another one rejects
RECURSIVE CreateAll(_, _, _, _)
CreateAll(acc, drafts, k, clock) ==
  IF k > Len(drafts) THEN acc
  ELSE LET r == AwaitCreate(acc, drafts[k], clock)
       IN CreateAll([r EXCEPT !.thrown = acc.thrown \/ r.thrown], drafts, k + 1, clock)

\* getYoutubeAnalytics for a connected user, with the createYouTubeEvents it
\* starts: the rejection of the detached call is logged, the answer is 200
createYouTubeEvents(user, stats, channelId, uuid, clock, coll) ==
  [res |-> Response(200, ABSENT, ABSENT),
   acc |-> CreateAll(Running(coll, uuid),
                     YouTubeStatsEvents(user, stats, channelId, clock), 1, clock)]

\* the array `events` of getInstagramAnalytics: one impression event for each
\* insight named impressions
RECURSIVE InstagramInsightEvents(_, _, _, _)
InstagramInsightEvents(user, insights, k, clock) ==
  IF k > Len(insights) THEN <<>>
  ELSE (IF insights[k].name = "impressions"
          THEN <<[AggregateDraft("impression", "instagram_viewers",
                                 Users[user]["instagram.id"], insights[k].value,
                                 "ig_impressions", clock, user)
                    EXCEPT !.platform = "instagram"]>>
        ELSE <<>>)
       \o InstagramInsightEvents(user, insights, k + 1, clock)

\* getInstagramAnalytics for a connected user: Promise.all is awaited, so a
\* rejected createEvent reaches the catch block
getInstagramAnalytics(user, insights, uuid, clock, coll) ==
  LET done == CreateAll(Running(coll, uuid),
                        InstagramInsightEvents(user, insights, 1, clock), 1, clock)
  IN [res |-> IF done.thrown
                THEN Response(500, ABSENT, "Failed to fetch Instagram analytics")
              ELSE Response(200, ABSENT, ABSENT),
      acc |-> done]

(***************************************************************************)
(* Request bodies the callers send.                                         *)
(***************************************************************************)
AbsentActor == [present |-> FALSE, platform_user_id |-> ABSENT, username |-> ABSENT]

AbsentSubject ==
  [present |-> FALSE, content_id |-> ABSENT, content_type |-> ABSENT,
   owner_platform_id |-> ABSENT]

AbsentMetrics == [present |-> FALSE, count |-> [kind |-> "absent", n |-> 0]]

AbsentMetadata == [present |-> FALSE, source |-> ABSENT, raw_event_id |-> ABSENT]

\* a well-formed draft whose owner is a connected twitter account
ValidDraft(t) ==
  [id |-> NoId,
   type |-> "engagement",
   platform |-> "twitter",
   actor |-> [present |-> TRUE, platform_user_id |-> "a1", username |-> "alice"],
   subject |-> [present |-> TRUE, content_id |-> "c1", content_type |-> "post",
                owner_platform_id |-> "o1"],
   metrics |-> [present |-> TRUE, count |-> [kind |-> "number", n |-> 1]],
   metadata |-> [present |-> TRUE, source |-> "api", raw_event_id |-> ABSENT],
   timestamp |-> Date(t),
   ingested_at |-> NoTime,
   pinscore_user_id |-> NoUser]

StoredIds(coll) == {coll[i].id : i \in 1..Len(coll)}

\* ids a caller may put into a draft: one it invented, or one it was given
CallerIds == {-1} \cup issued

\* the drafts that differ from d in one field
Variants(d, clock) ==
  {[d EXCEPT !.type = v] : v \in {ABSENT, "invalid_type"}}
  \cup {[d EXCEPT !.platform = v] : v \in {ABSENT, "myspace", "youtube"}}
  \cup {[d EXCEPT !.actor = v] :
          v \in {AbsentActor, [d.actor EXCEPT !.username = ABSENT]}}
  \cup {[d EXCEPT !.subject = v] :
          v \in {AbsentSubject,
                 [d.subject EXCEPT !.content_type = ABSENT],
                 [d.subject EXCEPT !.content_type = "podcast"],
                 [d.subject EXCEPT !.owner_platform_id = ABSENT],
                 [d.subject EXCEPT !.owner_platform_id = "o9"]}}
  \cup {[d EXCEPT !.metrics = v] :
          v \in {AbsentMetrics,
                 [d.metrics EXCEPT !.count = [kind |-> "absent", n |-> 0]],
                 [d.metrics EXCEPT !.count = [kind |-> "string", n |-> 0]],
                 [d.metrics EXCEPT !.count = [kind |-> "number", n |-> 0]],
                 [d.metrics EXCEPT !.count = [kind |-> "number", n |-> -1]]}}
  \cup {[d EXCEPT !.metadata = v] :
          v \in {AbsentMetadata,
                 [d.metadata EXCEPT !.source = ABSENT],
                 [d.metadata EXCEPT !.source = "telepathy"]}}
  \cup {[d EXCEPT !.timestamp = v] :
          v \in {[kind |-> "absent", t |-> 0], [kind |-> "invalid", t |-> 0],
                 Date(clock + 1), Date(clock - ONE_YEAR),
                 Date(clock - ONE_YEAR - 1)}}
  \cup {[d EXCEPT !.id = v] : v \in CallerIds}
  \cup {[d EXCEPT !.ingested_at = 1]}
  \cup {[d EXCEPT !.pinscore_user_id = "u2"]}

\* drafts with two deviations
TwoFaults(clock) ==
  LET d == ValidDraft(clock)
  IN {[d EXCEPT !.type = ABSENT, !.timestamp = Date(clock + 1)],
      [d EXCEPT !.metadata.source = "telepathy", !.timestamp = Date(clock + 1)],
      [d EXCEPT !.type = "invalid_type", !.platform = "myspace"],
      [d EXCEPT !.platform = ABSENT, !.type = "invalid_type"],
      [d EXCEPT !.actor = AbsentActor, !.subject.content_type = "podcast"],
      [d EXCEPT !.actor.username = ABSENT, !.subject.content_type = "podcast"],
      [d EXCEPT !.metrics.count = [kind |-> "string", n |-> 0],
                !.metadata.source = "telepathy"],
      [d EXCEPT !.type = ABSENT, !.timestamp = Date(clock - ONE_YEAR - 1)],
      [d EXCEPT !.subject.owner_platform_id = "o9", !.pinscore_user_id = "u2"],
      [d EXCEPT !.subject.owner_platform_id = "o9",
                !.pinscore_user_id = "not-an-objectid"],
      [d EXCEPT !.id = -1, !.ingested_at = 1]}

\* the bodies of POST /ingest examined by the validation properties
Drafts(clock) ==
  {ValidDraft(clock)} \cup Variants(ValidDraft(clock), clock) \cup TwoFaults(clock)

\* the bodies of POST /ingest sent while the other routes are in use too
CoreDrafts(clock) ==
  LET d == ValidDraft(clock)
  IN {d, [d EXCEPT !.type = "invalid_type"], [d EXCEPT !.ingested_at = 1],
      [d EXCEPT !.subject.owner_platform_id = "o9"]}
     \cup {[d EXCEPT !.id = v] : v \in CallerIds}

\* the deployments: every secret configured, or none
Environments ==
  {[INSTAGRAM_VERIFY_TOKEN |-> "secret", TWITTER_CONSUMER_SECRET |-> "key"],
   [INSTAGRAM_VERIFY_TOKEN |-> ABSENT, TWITTER_CONSUMER_SECRET |-> ABSENT]}

(***************************************************************************)
(* Platform normalizer: one adapter per platform turns a raw payload into   *)
(* a draft.  `content` is the platform's object of the payload (tweet,      *)
(* media, video or post) and `owner` the field the adapter reads the owner  *)
(* from; display_name, avatar_url, is_verified and duration_ms are copied   *)
(* through and are not part of the drafts modelled here.                    *)
(***************************************************************************)
\* own properties of the object literals eventTypeMap and contentTypeMap
TwitterEventTypeMap ==
  [like |-> "engagement", retweet |-> "share", reply |-> "comment",
   bookmark |-> "save", follow |-> "follow", impression |-> "impression"]

InstagramEventTypeMap ==
  [like |-> "engagement", comment |-> "comment", save |-> "save",
   share |-> "share", follow |-> "follow", impression |-> "impression"]

contentTypeMap ==
  [IMAGE |-> "post", VIDEO |-> "video", CAROUSEL_ALBUM |-> "post",
   REELS |-> "reel", STORY |-> "story"]

YouTubeEventTypeMap ==
  [like |-> "engagement", comment |-> "comment", share |-> "share",
   subscribe |-> "follow", view |-> "impression"]

TikTokEventTypeMap ==
  [like |-> "engagement", comment |-> "comment", share |-> "share",
   follow |-> "follow", view |-> "impression"]

FacebookEventTypeMap ==
  [like |-> "engagement", comment |-> "comment", share |-> "share",
   follow |-> "follow", impression |-> "impression"]

ThreadsEventTypeMap ==
  [like |-> "engagement", reply |-> "comment", repost |-> "share",
   follow |-> "follow", impression |-> "impression"]

\* names every object literal inherits from Object.prototype
ObjectPrototypeKeys ==
  {"constructor", "toString", "toLocaleString", "valueOf", "hasOwnProperty",
   "isPrototypeOf", "propertyIsEnumerable", "__proto__"}

\* the value (a function or an object, never a string) found under an
\* inherited name
Inherited(key) == "Object.prototype." \o key

\* map[key]: an own property, else one inherited from Object.prototype, else
\* undefined
Lookup(map, key) ==
  IF key \in DOMAIN map THEN map[key]
  ELSE IF key \in ObjectPrototypeKeys THEN Inherited(key)
  ELSE ABSENT

\* the draft an adapter returns, or the TypeError it throws
Normalized(draft) == [ok |-> TRUE, draft |-> draft]

\* a raw source time: an ISO-8601 string, or a number.  t is the instant in
\* days; a number is written with the unit its sender counted in, so that
\* "seconds" of t is the number t * 86400 and "millis" of t is t * 86400000
RawTime(enc, t) == [enc |-> enc, t |-> t]

NoRawTime == RawTime("absent", 0)

NaN == RawTime("NaN", 0)

\* Date.now()
DateNow(clock) == RawTime("millis", clock)

\* x || y on source times: undefined and NaN are falsy
TimeOrElse(x, y) == IF x.enc \in {"absent", "NaN"} THEN y ELSE x

\* x * 1000: a string that is no number, and undefined, give NaN
TimesThousand(x) ==
  CASE x.enc = "seconds" -> RawTime("millis", x.t)
    [] x.enc = "millis" -> RawTime("millis", x.t * 1000)
    [] OTHER -> NaN

\* new Date(x): a string is parsed, a number is read as milliseconds
NewDate(x) ==
  CASE x.enc = "seconds" -> Date(x.t \div 1000)
    [] OTHER -> Date(x.t)

\* the object literal the adapters return
NormalizedDraft(type, platform, rawData, contentType, owner, timestamp) ==
  [id |-> NoId,
   type |-> type,
   platform |-> platform,
   actor |-> [present |-> TRUE, platform_user_id |-> rawData.user.id,
              username |-> rawData.user.username],
   subject |-> [present |-> TRUE, content_id |-> rawData.content.id,
                content_type |-> contentType, owner_platform_id |-> owner],
   metrics |-> [present |-> TRUE, count |-> [kind |-> "number", n |-> 1]],
   metadata |-> [present |-> TRUE, source |-> OrElse(rawData.source, "api"),
                 raw_event_id |-> rawData.content.id],
   timestamp |-> timestamp,
   ingested_at |-> NoTime,
   pinscore_user_id |-> NoUser]

NormalizeThrows == [ok |-> FALSE]

\* reading a property of rawData.user or of the content object throws when
\* the object is missing from the payload
ReadsThrow(rawData) == ~rawData.user.present \/ ~rawData.content.present

normalizeTwitterEvent(rawData, clock) ==
  \* tweet.author_id || tweet.user.id_str: the payloads carry no tweet.user
  IF ReadsThrow(rawData) \/ rawData.content.owner = ABSENT THEN NormalizeThrows
  ELSE Normalized(NormalizedDraft(
         OrElse(Lookup(TwitterEventTypeMap, rawData.engagement_type), "engagement"),
         "twitter", rawData, "post", rawData.content.owner,
         NewDate(TimeOrElse(rawData.content.created, DateNow(clock)))))

normalizeInstagramEvent(rawData, clock) ==
  \* media.owner.id
  IF ReadsThrow(rawData) \/ rawData.content.owner = ABSENT THEN NormalizeThrows
  ELSE Normalized(NormalizedDraft(
         OrElse(Lookup(InstagramEventTypeMap, rawData.engagement_type), "engagement"),
         "instagram", rawData,
         OrElse(Lookup(contentTypeMap, rawData.content.media_type), "post"),
         rawData.content.owner,
         NewDate(TimeOrElse(rawData.content.created, DateNow(clock)))))

normalizeYouTubeEvent(rawData, clock) ==
  IF ReadsThrow(rawData) THEN NormalizeThrows
  ELSE Normalized(NormalizedDraft(
         OrElse(Lookup(YouTubeEventTypeMap, rawData.engagement_type), "engagement"),
         "youtube", rawData,
         IF rawData.content.duration > 60 THEN "video" ELSE "short",
         rawData.content.owner,
         NewDate(TimeOrElse(rawData.content.created, DateNow(clock)))))

normalizeTikTokEvent(rawData, clock) ==
  \* video.author_id || video.author.id: the payloads carry no video.author
  IF ReadsThrow(rawData) \/ rawData.content.owner = ABSENT THEN NormalizeThrows
  ELSE Normalized(NormalizedDraft(
         OrElse(Lookup(TikTokEventTypeMap, rawData.engagement_type), "engagement"),
         "tiktok", rawData, "video", rawData.content.owner,
         NewDate(TimeOrElse(TimesThousand(rawData.content.created), DateNow(clock)))))

normalizeFacebookEvent(rawData, clock) ==
  IF ReadsThrow(rawData) THEN NormalizeThrows
  ELSE Normalized(NormalizedDraft(
         OrElse(Lookup(FacebookEventTypeMap, rawData.engagement_type), "engagement"),
         "facebook", rawData, "post", rawData.content.owner,
         NewDate(TimeOrElse(rawData.content.created, DateNow(clock)))))

normalizeThreadsEvent(rawData, clock) ==
  IF ReadsThrow(rawData) THEN NormalizeThrows
  ELSE Normalized(NormalizedDraft(
         OrElse(Lookup(ThreadsEventTypeMap, rawData.engagement_type), "engagement"),
         "threads", rawData, "post", rawData.content.owner,
         NewDate(TimeOrElse(rawData.content.created, DateNow(clock)))))

\* platform.toLowerCase() on the spellings the callers use
toLowerCase(platform) ==
  CASE platform = "Twitter" -> "twitter"
    [] platform = "YOUTUBE" -> "youtube"
    [] OTHER -> platform

\* normalizePlatformData: the answer, and the body handed to the next
\* middleware when there is one
normalizePlatformData(rawData, clock) ==
  IF rawData.platform = ABSENT
    THEN [next |-> FALSE,
          res |-> Response(400, ABSENT, "Platform identifier is required")]
  ELSE LET platform == toLowerCase(rawData.platform)
           r == CASE platform = "twitter" -> normalizeTwitterEvent(rawData, clock)
                  [] platform = "instagram" -> normalizeInstagramEvent(rawData, clock)
                  [] platform = "youtube" -> normalizeYouTubeEvent(rawData, clock)
                  [] platform = "tiktok" -> normalizeTikTokEvent(rawData, clock)
                  [] platform = "facebook" -> normalizeFacebookEvent(rawData, clock)
                  [] platform = "threads" -> normalizeThreadsEvent(rawData, clock)
                  [] OTHER -> [ok |-> FALSE]
       IN IF platform \notin {"twitter", "instagram", "youtube", "tiktok",
                              "facebook", "threads"}
            THEN [next |-> FALSE,
                  res |-> Response(400, ABSENT, "Unsupported platform")]
          ELSE IF r.ok
            THEN [next |-> TRUE, body |-> r.draft, res |-> CallNext.res]
          ELSE [next |-> FALSE,
                res |-> Response(400, ABSENT, "Failed to normalize platform data")]

\* raw payloads the platforms send
RawUsers ==
  {[present |-> TRUE, id |-> "a1", username |-> "alice"],
   [present |-> TRUE, id |-> ABSENT, username |-> "alice"],
   [present |-> TRUE, id |-> "a1", username |-> ABSENT],
   [present |-> FALSE, id |-> ABSENT, username |-> ABSENT]}

RawEngagementTypes ==
  {ABSENT, "like", "retweet", "reply", "bookmark", "follow", "impression",
   "comment", "save", "share", "subscribe", "view", "repost", "reaction",
   "constructor"}

RawMediaTypes ==
  {ABSENT, "IMAGE", "VIDEO", "CAROUSEL_ALBUM", "REELS", "STORY", "GIF", "toString"}

\* the encodings a platform may give the time of an activity in
RawTimes(clock) ==
  {NoRawTime, RawTime("iso", clock - 1), RawTime("seconds", clock - 1),
   RawTime("millis", clock - 1)}

RawContents(clock) ==
  {[present |-> FALSE, id |-> ABSENT, media_type |-> ABSENT, duration |-> 0,
    owner |-> ABSENT, created |-> NoRawTime],
   [present |-> TRUE, id |-> ABSENT, media_type |-> ABSENT, duration |-> 0,
    owner |-> "o1", created |-> RawTime("iso", clock - 1)]}
  \cup {[present |-> TRUE, id |-> "c1", media_type |-> m, duration |-> 0,
         owner |-> o, created |-> RawTime("iso", clock - 1)] :
          m \in RawMediaTypes, o \in {ABSENT, "o1"}}
  \cup {[present |-> TRUE, id |-> "c1", media_type |-> ABSENT, duration |-> d,
         owner |-> "o1", created |-> c] :
          d \in {0, 90}, c \in RawTimes(clock)}

RawPlatforms == VALID_PLATFORMS \cup {ABSENT, "Twitter", "YOUTUBE", "myspace"}

RawPayloads(clock) ==
  {[platform |-> p, engagement_type |-> e, source |-> s, user |-> u, content |-> c] :
     p \in RawPlatforms, e \in RawEngagementTypes, s \in {ABSENT, "webhook"},
     u \in RawUsers, c \in RawContents(clock)}

(***************************************************************************)
(* Requests in flight.  Node runs one handler at a time and switches to     *)
(* another request wherever a handler awaits: at User.findOne and at the    *)
(* save inside Event.createEvent.                                           *)
(***************************************************************************)
Slots == 1..MaxInflight

\* a slot that serves no request
FreeSlot ==
  [op |-> "none", items |-> <<>>, k |-> 0, pc |-> "free", data |-> <<>>,
   uuid |-> 0, builtAt |-> NoTime, log |-> <<>>, successful |-> <<>>, status |-> 0]

\* the handler reaches the item k of its request: it awaits User.findOne if
\* the item names an owner; otherwise createEvent draws the uuid, builds the
\* document and awaits its save
BeginItem(slot, k, counter, clock) ==
  IF HasOwner(slot.items[k])
    THEN [slot |-> [slot EXCEPT !.k = k, !.pc = "findOne"], counter |-> counter]
  ELSE [slot |-> [slot EXCEPT !.k = k, !.pc = "save", !.data = <<slot.items[k]>>,
                              !.uuid = counter + 1, !.builtAt = clock],
        counter |-> counter + 1]

\* User.findOne resolved: the item is attributed, createEvent draws the uuid,
\* builds the document and awaits its save
AfterFindOne(slot, counter, clock) ==
  [slot |-> [slot EXCEPT !.pc = "save", !.data = <<Attribute(slot.items[slot.k])>>,
                         !.uuid = counter + 1, !.builtAt = clock],
   counter |-> counter + 1]

\* the status ingestEvent answers with once createEvent settled
IngestStatus(r) ==
  IF r.ok THEN 201
  ELSE IF IncludesImmutable(r.error.message) THEN 403
  ELSE 500

\* items that will still draw a uuid
Undrawn(slot) ==
  CASE slot.pc = "findOne" -> Len(slot.items) - slot.k + 1
    [] slot.pc = "save" -> Len(slot.items) - slot.k
    [] OTHER -> 0

RECURSIVE SumUndrawn(_, _)
SumUndrawn(f, s) == IF s = 0 THEN 0 ELSE Undrawn(f[s]) + SumUndrawn(f, s - 1)

(***************************************************************************)
(* Initial state                                                            *)
(***************************************************************************)
Init ==
  /\ events = <<>>
  /\ mintedFor = <<>>
  /\ nextUuid = 0
  /\ now = StartTime
  /\ ticks = 0
  /\ lookups = 0
  /\ issued = {}
  /\ itemLog = <<>>
  /\ env \in Environments
  /\ eventStats = [u \in UserIds |-> NoEventStats]
  /\ inflight = [s \in Slots |-> FreeSlot]
  /\ origin = <<>>
  /\ req = [op |-> "none"]
  /\ res = Response(0, ABSENT, ABSENT)

\* no request is being answered
Idle == req.op = "none"

\* the response has been sent; the next request gets a fresh req and res
NextRequest ==
  /\ ~Idle
  /\ req' = [op |-> "none"]
  /\ res' = Response(0, ABSENT, ABSENT)
  /\ lookups' = 0
  /\ itemLog' = <<>>
  /\ UNCHANGED <<events, mintedFor, nextUuid, now, ticks, issued, env, eventStats, inflight, origin>>

\* the clock advances between requests
Tick ==
  /\ Idle
  /\ ticks < MaxTicks
  /\ ticks' = ticks + 1
  /\ now' = now + 1
  /\ UNCHANGED <<events, mintedFor, nextUuid, lookups, issued, itemLog, env, eventStats, inflight, origin, req, res>>

\* POST /ingest with a body of D while the user directory is in a state of
\* Directory: validateEvent, then ingestEvent
PostIngest(D, Directory) ==
  /\ Idle
  /\ Len(events) < MaxEvents
  /\ nextUuid < MaxUuid
  /\ \E body \in D, directory \in Directory :
       LET v == validateEvent(body, now)
           r == ingestEvent(body, nextUuid + 1, now, events, directory)
       IN /\ req' = [op |-> "ingest", body |-> body, directory |-> directory]
          /\ UNCHANGED <<now, ticks, env, eventStats, inflight, origin>>
          /\ itemLog' = <<>>
          /\ IF ~v.next
               THEN /\ res' = v.res
                    /\ lookups' = 0
                    /\ UNCHANGED <<events, mintedFor, nextUuid, issued>>
             ELSE /\ res' = r.res
                  /\ events' = r.coll
                  /\ nextUuid' = nextUuid + r.drawn
                  /\ lookups' = r.lookups
                  /\ mintedFor' = IF r.created THEN Append(mintedFor, nextUuid + 1)
                                  ELSE mintedFor
                  /\ issued' = IF r.created THEN issued \cup {r.res.event_id}
                               ELSE issued

IngestOne == PostIngest(CoreDrafts(now), {"up"})

IngestAnyDraft == PostIngest(Drafts(now), {"up", "down"})

RECURSIVE SeqsUpTo(_, _)
SeqsUpTo(S, n) ==
  IF n = 0 THEN {<<>>}
  ELSE LET shorter == SeqsUpTo(S, n - 1)
       IN shorter \cup {Append(q, x) : q \in shorter, x \in S}

\* items of the batches examined by the batch properties
BatchDrafts(clock) ==
  LET d == ValidDraft(clock)
  IN {d,
      [d EXCEPT !.id = -1],
      [d EXCEPT !.type = "invalid_type"],
      [d EXCEPT !.type = ABSENT],
      [d EXCEPT !.timestamp = Date(clock + 1)],
      [d EXCEPT !.timestamp = Date(clock - ONE_YEAR - 1)]}

\* items of the batches sent while the other routes are in use too
CoreBatchDrafts(clock) ==
  LET d == ValidDraft(clock)
  IN {d, [d EXCEPT !.id = -1], [d EXCEPT !.type = "invalid_type"]}

\* bodies of POST /ingest/batch: no array, the empty array, short arrays of
\* items of S and an array one item over the limit
BatchBodies(S, clock) ==
  {[isArray |-> FALSE, events |-> <<>>]}
  \cup {[isArray |-> TRUE, events |-> q] : q \in SeqsUpTo(S, MaxBatchLen)}
  \cup {[isArray |-> TRUE,
         events |-> [i \in 1..(MAX_BATCH_EVENTS + 1) |-> ValidDraft(clock)]]}

\* POST /ingest/batch with a body of B: validateBatchEvents, then
\* batchIngestEvents
PostIngestBatch(B) ==
  /\ Idle
  /\ \E body \in B :
       LET v == validateBatchEvents(body)
           r == batchIngestEvents(body, nextUuid, now, events)
       IN /\ Len(body.events) <= MaxBatchLen =>
               /\ Len(events) + Len(body.events) <= MaxEvents
               /\ nextUuid + Len(body.events) <= MaxUuid
          /\ req' = [op |-> "batch", isArray |-> body.isArray,
                     size |-> Len(body.events),
                     items |-> IF Len(body.events) <= MaxBatchLen THEN body.events
                               ELSE <<>>]
          /\ UNCHANGED <<now, ticks, env, eventStats, inflight, origin>>
          /\ IF ~v.next
               THEN /\ res' = v.res
                    /\ lookups' = 0
                    /\ itemLog' = <<>>
                    /\ UNCHANGED <<events, mintedFor, nextUuid, issued>>
             ELSE /\ res' = r.res
                  /\ events' = r.acc.coll
                  /\ nextUuid' = r.acc.uuid
                  /\ lookups' = r.acc.lookups
                  /\ itemLog' = r.acc.log
                  /\ mintedFor' = mintedFor \o r.acc.minted
                  /\ issued' = issued \cup Range(r.acc.successful)

IngestBatch == PostIngestBatch(BatchBodies(CoreBatchDrafts(now), now))

IngestAnyBatch == PostIngestBatch(BatchBodies(BatchDrafts(now), now))

Tokens == {"none", "u1"}

\* GET /platform/:platform, GET /user/events, GET /user/summary, GET /:eventId
QueryEvents ==
  /\ Idle
  /\ \E token \in Tokens, route \in {"platform", "user", "summary", "byId"},
        startDate \in {NoTime, now}, limit \in {1, 100}, eventId \in {-1, 1} :
       LET a == authenticateToken(token)
       IN /\ route # "platform" => startDate = NoTime /\ limit = 100
          /\ route # "byId" => eventId = 1
          /\ token = "none" => route = "byId" /\ eventId = 1
          /\ req' = [op |-> "query", route |-> route, token |-> token,
                     startDate |-> startDate, limit |-> limit, eventId |-> eventId]
          /\ res' = IF ~a.next THEN a.res
                    ELSE IF route = "platform"
                      THEN getEventsByPlatform("twitter", startDate, NoTime, limit,
                                               1, events)
                    ELSE IF route = "user"
                      THEN getEventsByUser(token, ABSENT, NoTime, NoTime, limit,
                                           events)
                    ELSE IF route = "summary"
                      THEN getEventsSummary(token, events)
                    ELSE getEventById(eventId, events)
          /\ lookups' = 0
          /\ itemLog' = <<>>
          /\ UNCHANGED <<events, mintedFor, nextUuid, now, ticks, issued, env, eventStats, inflight, origin>>

\* the effect of a webhook handler on the state
WebhookDone(request, r) ==
  /\ req' = request
  /\ res' = r.res
  /\ events' = r.acc.coll
  /\ nextUuid' = r.acc.uuid
  /\ lookups' = r.acc.lookups
  /\ mintedFor' = mintedFor \o r.acc.minted
  /\ itemLog' = <<>>
  /\ UNCHANGED <<now, ticks, issued, env, eventStats, inflight, origin>>

\* notifications YouTube may deliver
YouTubeNotifications ==
  {[channelId |-> "o1", videoId |-> "v1"],
   [channelId |-> "o9", videoId |-> "v1"],
   [channelId |-> "o1", videoId |-> ABSENT],
   [channelId |-> ABSENT, videoId |-> ABSENT]}

\* GET|POST /webhooks/youtube
YouTubeWebhook ==
  /\ Idle
  /\ Len(events) < MaxEvents
  /\ nextUuid < MaxUuid
  /\ \E method \in {"GET", "POST"}, challenge \in {ABSENT, "ch"},
        notification \in YouTubeNotifications :
       /\ method = "POST" => challenge = ABSENT
       /\ method = "GET" => notification.videoId = "v1"
       /\ WebhookDone([op |-> "webhook", platform |-> "youtube", method |-> method,
                       query |-> [challenge |-> challenge], body |-> notification],
                      handleYouTubeWebhook(method, [challenge |-> challenge],
                                           notification, nextUuid, now, events))

InstagramValue(clock) ==
  [from |-> [id |-> "a1", username |-> "alice"], media_id |-> "m1",
   media_type |-> ABSENT, id |-> "r1",
   created_time |-> [kind |-> "number", t |-> clock]]

InstagramChangeSet(clock) ==
  LET v == InstagramValue(clock)
  IN {[field |-> "likes", value |-> v],
      [field |-> "comments", value |-> [v EXCEPT !.media_type = "IMAGE"]],
      [field |-> "follows",
       value |-> [v EXCEPT !.created_time = [kind |-> "absent", t |-> 0]]]}

\* the arrays entry.changes of the notifications: one change of each kind,
\* and two changes of which the first or the second cannot be persisted
InstagramChangeSeqs(clock) ==
  LET v == InstagramValue(clock)
      likes == [field |-> "likes", value |-> v]
      comments == [field |-> "comments", value |-> [v EXCEPT !.media_type = "IMAGE"]]
  IN {<<c>> : c \in InstagramChangeSet(clock)}
     \cup {<<likes, likes>>, <<likes, comments>>, <<comments, likes>>}

NumChanges(entry) ==
  IF Len(entry) = 0 THEN 0
  ELSE IF Len(entry) = 1 THEN Len(entry[1].changes)
  ELSE Len(entry[1].changes) + Len(entry[2].changes)

\* bodies Instagram may deliver: another object, one entry of a connected
\* account, or an entry of an unknown account, alone or followed by one of a
\* connected one
InstagramBodies(clock) ==
  LET unknown == [id |-> "o9",
                  changes |-> <<[field |-> "likes", value |-> InstagramValue(clock)]>>]
  IN {[object |-> "page", entry |-> <<>>]}
     \cup {[object |-> "instagram", entry |-> <<[id |-> "o1", changes |-> c]>>] :
             c \in InstagramChangeSeqs(clock)}
     \cup {[object |-> "instagram", entry |-> <<unknown>>]}
     \cup {[object |-> "instagram",
            entry |-> <<unknown, [id |-> "o1", changes |-> <<c>>]>>] :
             c \in InstagramChangeSet(clock)}

\* GET|POST /webhooks/instagram
InstagramWebhook ==
  /\ Idle
  /\ \E method \in {"GET", "POST"}, mode \in {ABSENT, "subscribe"},
        token \in {ABSENT, "secret", "wrong"}, body \in InstagramBodies(now) :
       LET query == [mode |-> mode, verify_token |-> token, challenge |-> "ch"]
       IN /\ method = "POST" => mode = ABSENT /\ token = ABSENT
          /\ method = "GET" => body.object = "page"
          /\ Len(events) + NumChanges(body.entry) <= MaxEvents
          /\ nextUuid + NumChanges(body.entry) <= MaxUuid
          /\ WebhookDone([op |-> "webhook", platform |-> "instagram",
                          method |-> method, query |-> query, body |-> body],
                         handleInstagramWebhook(method, query, body,
                                                env.INSTAGRAM_VERIFY_TOKEN,
                                                nextUuid, now, events))

TwitterFavoriteSet(clock) ==
  LET f == [user |-> [id_str |-> "a1", screen_name |-> "alice"],
            favorited_status |-> [present |-> TRUE, id_str |-> "t1",
                                  user_id_str |-> "o1"],
            created_at |-> Date(clock)]
  IN {f,
      [f EXCEPT !.favorited_status.user_id_str = "o9"],
      [f EXCEPT !.created_at = [kind |-> "invalid", t |-> 0]]}

\* the arrays body.favorite_events: none, one favorite of each kind, two
\* favorites of which the second is of each kind, and two of which the first
\* cannot be persisted
TwitterFavoriteSeqs(clock) ==
  LET f == CHOOSE x \in TwitterFavoriteSet(clock) :
             x.favorited_status.user_id_str = "o1" /\ x.created_at.kind = "date"
  IN {<<>>} \cup {<<x>> : x \in TwitterFavoriteSet(clock)}
     \cup {<<f, x>> : x \in TwitterFavoriteSet(clock)}
     \cup {<<[f EXCEPT !.created_at = [kind |-> "invalid", t |-> 0]], f>>}

TwitterBodies(clock) ==
  {[has_favorite_events |-> FALSE, favorite_events |-> <<>>]}
  \cup {[has_favorite_events |-> TRUE, favorite_events |-> q] :
          q \in TwitterFavoriteSeqs(clock)}

\* GET|POST /webhooks/twitter
TwitterWebhook ==
  /\ Idle
  /\ \E method \in {"GET", "POST"}, crc_token \in {ABSENT, "abc"},
        body \in TwitterBodies(now) :
       /\ method = "POST" => crc_token = ABSENT
       /\ method = "GET" => Len(body.favorite_events) = 0
       /\ Len(events) + Len(body.favorite_events) <= MaxEvents
       /\ nextUuid + Len(body.favorite_events) <= MaxUuid
       /\ WebhookDone([op |-> "webhook", platform |-> "twitter", method |-> method,
                       query |-> [crc_token |-> crc_token], body |-> body],
                      handleTwitterWebhook(method, [crc_token |-> crc_token], body,
                                           env.TWITTER_CONSUMER_SECRET, nextUuid,
                                           now, events))

\* channel statistics the YouTube API may return
YouTubeStats ==
  {[viewCount |-> 0, subscriberCount |-> 0, commentCount |-> 0],
   [viewCount |-> 5, subscriberCount |-> 0, commentCount |-> 0],
   [viewCount |-> 5, subscriberCount |-> 3, commentCount |-> 0],
   [viewCount |-> 0, subscriberCount |-> 0, commentCount |-> 2]}

\* GET /analytics/youtube of the connected user u1
YouTubePull ==
  /\ Idle
  /\ \E stats \in YouTubeStats :
       LET user == "u1"
           channelId == Users[user]["youtube.channelId"]
           n == Len(YouTubeStatsEvents(user, stats, channelId, now))
       IN /\ Len(events) + n <= MaxEvents
          /\ nextUuid + n <= MaxUuid
          /\ WebhookDone([op |-> "pull", platform |-> "youtube", stats |-> stats],
                         createYouTubeEvents(user, stats, channelId, nextUuid,
                                             now, events))

\* insights the Instagram API may return
InstagramInsights ==
  {<<>>,
   <<[name |-> "impressions", value |-> 7]>>,
   <<[name |-> "reach", value |-> 4], [name |-> "impressions", value |-> 7]>>}

\* GET /analytics/instagram of the connected user u1
InstagramPull ==
  /\ Idle
  /\ \E insights \in InstagramInsights :
       LET user == "u1"
           n == Len(InstagramInsightEvents(user, insights, 1, now))
       IN /\ Len(events) + n <= MaxEvents
          /\ nextUuid + n <= MaxUuid
          /\ WebhookDone([op |-> "pull", platform |-> "instagram",
                          insights |-> insights],
                         getInstagramAnalytics(user, insights, nextUuid, now, events))

\* the normalizer applied to a raw payload
Normalize ==
  /\ Idle
  /\ \E rawData \in RawPayloads(now) :
       LET r == normalizePlatformData(rawData, now)
       IN /\ req' = IF r.next
                      THEN [op |-> "normalize", raw |-> rawData, body |-> r.body]
                    ELSE [op |-> "normalize", raw |-> rawData]
          /\ res' = r.res
  /\ UNCHANGED <<events, mintedFor, nextUuid, now, ticks, lookups, issued,
                 itemLog, env, eventStats, inflight, origin>>

(***************************************************************************)
(* Concurrent ingestion: POST /ingest and POST /ingest/batch served in      *)
(* overlapping requests.                                                    *)
(***************************************************************************)
\* the requests sent concurrently: op and the drafts of the body.  The drafts
\* are the well-formed one, one naming an id of the caller's, and one the
\* schema refuses
ConcurrentRequests(clock) ==
  LET d == ValidDraft(clock)
      named == [d EXCEPT !.id = -1]
      refused == [d EXCEPT !.type = "invalid_type"]
  IN {[op |-> "ingest", items |-> <<x>>] : x \in {d, named, refused}}
     \cup {[op |-> "batch", items |-> q] :
             q \in SeqsUpTo({d, named}, MaxBatchLen) \ {<<>>}}
     \cup {[op |-> "batch", items |-> <<refused, d>>]}

\* a request arrives at a free slot: the validation middleware runs, then the
\* handler up to its first await
Receive(s) ==
  /\ Idle
  /\ inflight[s].pc = "free"
  /\ \E request \in ConcurrentRequests(now) :
       LET v == IF request.op = "ingest" THEN validateEvent(request.items[1], now)
                ELSE validateBatchEvents([isArray |-> TRUE, events |-> request.items])
           slot == [FreeSlot EXCEPT !.op = request.op, !.items = request.items]
           b == BeginItem(slot, 1, nextUuid, now)
       IN /\ nextUuid + SumUndrawn(inflight, MaxInflight) + Len(request.items)
               <= MaxUuid
          /\ IF ~v.next
               THEN /\ inflight' = [inflight EXCEPT ![s] =
                                      [slot EXCEPT !.pc = "done",
                                                   !.status = v.res.status]]
                    /\ nextUuid' = nextUuid
             ELSE /\ inflight' = [inflight EXCEPT ![s] = b.slot]
                  /\ nextUuid' = b.counter
  /\ UNCHANGED <<events, mintedFor, now, ticks, lookups, issued, itemLog, env,
                 eventStats, origin, req, res>>

\* the owner lookup of the request in slot s resolves
FindOneReturns(s) ==
  /\ inflight[s].pc = "findOne"
  /\ LET a == AfterFindOne(inflight[s], nextUuid, now)
     IN /\ inflight' = [inflight EXCEPT ![s] = a.slot]
        /\ nextUuid' = a.counter
  /\ UNCHANGED <<events, mintedFor, now, ticks, lookups, issued, itemLog, env,
                 eventStats, origin, req, res>>

\* the save of the request in slot s settles: the store accepts or rejects the
\* document, the handler records the outcome and goes on to its next await or
\* to its response
SaveReturns(s) ==
  /\ inflight[s].pc = "save"
  /\ LET slot == inflight[s]
         r == createEvent(slot.data[1], slot.uuid, slot.builtAt, events)
         logged == [slot EXCEPT
                      !.log = Append(slot.log,
                                     <<slot.k, IF r.ok THEN "successful" ELSE "failed">>),
                      !.successful = IF r.ok THEN Append(slot.successful, Last(r.coll).id)
                                     ELSE slot.successful]
         b == BeginItem(logged, slot.k + 1, nextUuid, now)
     IN /\ events' = r.coll
        /\ origin' = IF r.ok THEN Append(origin, <<s, slot.k>>) ELSE origin
        /\ mintedFor' = IF r.ok THEN Append(mintedFor, slot.uuid) ELSE mintedFor
        /\ IF slot.op = "ingest"
             THEN /\ inflight' = [inflight EXCEPT ![s] =
                                    [logged EXCEPT !.pc = "done",
                                                   !.status = IngestStatus(r)]]
                  /\ nextUuid' = nextUuid
           ELSE IF slot.k = Len(slot.items)
             THEN /\ inflight' = [inflight EXCEPT ![s] =
                                    [logged EXCEPT !.pc = "done", !.status = 201]]
                  /\ nextUuid' = nextUuid
           ELSE /\ inflight' = [inflight EXCEPT ![s] = b.slot]
                /\ nextUuid' = b.counter
  /\ UNCHANGED <<now, ticks, lookups, issued, itemLog, env, eventStats, req, res>>

\* the response of the request in slot s has been sent
Release(s) ==
  /\ inflight[s].pc = "done"
  /\ inflight' = [inflight EXCEPT ![s] = FreeSlot]
  /\ origin' = [i \in 1..Len(origin) |->
                  IF origin[i][1] = s THEN <<0, 0>> ELSE origin[i]]
  /\ UNCHANGED <<events, mintedFor, nextUuid, now, ticks, lookups, issued,
                 itemLog, env, eventStats, req, res>>

(***************************************************************************)
(* The HTTP interface: the routes of the event, webhook and social        *)
(* routers that reach the Event model.                                      *)
(***************************************************************************)
Next ==
  \/ Tick
  \/ IngestOne
  \/ IngestBatch
  \/ QueryEvents
  \/ YouTubeWebhook
  \/ InstagramWebhook
  \/ TwitterWebhook
  \/ NextRequest

Spec == Init /\ [][Next]_vars

\* every route that creates events, the API pull included, at one instant
NextPaths ==
  \/ IngestOne
  \/ IngestBatch
  \/ YouTubeWebhook
  \/ InstagramWebhook
  \/ TwitterWebhook
  \/ YouTubePull
  \/ InstagramPull
  \/ NextRequest

SpecPaths == Init /\ [][NextPaths]_vars

\* overlapping POST /ingest and POST /ingest/batch requests
NextConcurrent ==
  \/ \E s \in Slots : Receive(s)
  \/ \E s \in Slots : FindOneReturns(s)
  \/ \E s \in Slots : SaveReturns(s)
  \/ \E s \in Slots : Release(s)

\* the ingestion routes read no secret: one deployment is enough
InitConfigured == Init /\ env.INSTAGRAM_VERIFY_TOKEN # ABSENT

SpecConcurrent == InitConfigured /\ [][NextConcurrent]_vars

\* the normalizer on its own: it is mounted on no route
NextNormalize ==
  \/ Normalize
  \/ NextRequest

SpecNormalize == Init /\ [][NextNormalize]_vars

(***************************************************************************)
(* POST /ingest alone, over all the drafts.                                 *)
(***************************************************************************)
NextIngest ==
  \/ Tick
  \/ IngestAnyDraft
  \/ NextRequest

SpecIngest == Init /\ [][NextIngest]_vars

(***************************************************************************)
(* POST /ingest/batch alone, over all the batch items.                      *)
(***************************************************************************)
NextBatch ==
  \/ Tick
  \/ IngestAnyBatch
  \/ NextRequest

SpecBatch == Init /\ [][NextBatch]_vars

(***************************************************************************)
(* Operations of the Event model on persisted documents.  The schema        *)
(* registers a pre hook for save, findOneAndUpdate and updateOne; an         *)
(* operation without a hook is executed by the store.                       *)
(***************************************************************************)
ModelOperations ==
  {"save", "findOneAndUpdate", "updateOne", "updateMany", "deleteOne", "deleteMany"}

\* the error of the pre hook registered for the operation, if any
PreHook(operation) ==
  IF operation = "save" THEN PreSave(FALSE)
  ELSE IF operation \in {"findOneAndUpdate", "updateOne"}
    THEN [name |-> "Error", message |-> ImmutableUpdateMessage, paths |-> {}]
  ELSE NoError

\* indexes of the documents left by a delete of the documents with that id
Kept(coll, id) == {i \in 1..Len(coll) : coll[i].id # id}

RECURSIVE Restrict(_, _, _)
Restrict(seq, I, k) ==
  IF k > Len(seq) THEN <<>>
  ELSE (IF k \in I THEN <<seq[k]>> ELSE <<>>) \o Restrict(seq, I, k + 1)

\* Event.<operation>({ id }, { $set: { type: "click" } }) and, for save, the
\* same change made to a document that was loaded from the store
ModelCall(operation, id, coll) ==
  LET hook == PreHook(operation)
  IN IF hook # NoError THEN [error |-> hook, coll |-> coll, kept |-> 1..Len(coll)]
     ELSE IF operation = "updateMany"
       THEN [error |-> NoError,
             coll |-> [i \in 1..Len(coll) |->
                         IF coll[i].id = id THEN [coll[i] EXCEPT !.type = "click"]
                         ELSE coll[i]],
             kept |-> 1..Len(coll)]
     ELSE [error |-> NoError,
           coll |-> Restrict(coll, Kept(coll, id), 1),
           kept |-> Kept(coll, id)]

\* a caller of the model applies an operation to a persisted event
StoreCall ==
  /\ Idle
  /\ \E operation \in ModelOperations, i \in 1..Len(events) :
       LET r == ModelCall(operation, events[i].id, events)
       IN /\ req' = [op |-> "store", operation |-> operation, id |-> events[i].id]
          /\ res' = Response(0, ABSENT, r.error.message)
          /\ events' = r.coll
          /\ mintedFor' = Restrict(mintedFor, r.kept, 1)
          /\ lookups' = 0
          /\ itemLog' = <<>>
          /\ UNCHANGED <<nextUuid, now, ticks, issued, env, eventStats, inflight, origin>>

NextStore ==
  \/ Tick
  \/ IngestOne
  \/ StoreCall
  \/ NextRequest

SpecStore == Init /\ [][NextStore]_vars

(***************************************************************************)
(* Properties                                                               *)
(***************************************************************************)
IsPrefix(s, t) == Len(s) <= Len(t) /\ \A i \in 1..Len(s) : s[i] = t[i]

UniqueIds(coll) ==
  \A i, j \in 1..Len(coll) : i # j => coll[i].id # coll[j].id

\* the ids a response hands to the caller
ReturnedIds(response) ==
  IF response.status # 201 THEN {}
  ELSE ({response.event_id} \ {NoId})
       \cup {response.successful[i] : i \in 1..Len(response.successful)}

\* C1: every id returned for a newly persisted event differs from every id
\* issued or stored before, the ids of one batch differ from each other, and no
\* two events of the store share an id.
C1_FreshUniqueIds ==
  [][/\ \A id \in ReturnedIds(res') : id \notin issued /\ id \notin StoredIds(events)
     /\ \A i, j \in 1..Len(res'.successful) :
          i # j => res'.successful[i] # res'.successful[j]
     /\ UniqueIds(events')]_vars

\* C1 witness: an ingestion that named its own id is answered with the id of
\* its event while an event of a webhook is in the store
C1_Witness ==
  /\ req.op = "ingest"
  /\ req.body.id # NoId
  /\ res.status = 201
  /\ res.event_id \in StoredIds(events)
  /\ Len(events) >= 2
  /\ \E i \in 1..Len(events) : events[i].metadata.source = "webhook"

\* C2: the id of every event in the store is the uuid createEvent drew for it.
C2_SystemMintsId ==
  \A i \in 1..Len(events) : events[i].id = mintedFor[i]

\* C3: every event appended to the store carries the clock reading of its
\* acceptance as ingested_at, whatever the draft supplied.
C3_IngestedAtIsSystemTime ==
  [][\A i \in (Len(events) + 1)..Len(events') : events'[i].ingested_at = now]_vars

\* C3 witness: a draft that supplied its own ingested_at was persisted
C3_Witness ==
  /\ req.op = "ingest"
  /\ req.body.ingested_at # NoTime
  /\ req.body.ingested_at # now
  /\ res.status = 201
  /\ ticks > 0

\* C4: the store is append-only: every step leaves the persisted events in
\* place and unchanged.
C4_AppendOnly == [][IsPrefix(events, events')]_vars

\* C4 witness: a full store is read by a query after a createEvent call
\* that drew a uuid was refused
C4_Witness ==
  /\ Len(events) = MaxEvents
  /\ req.op = "query"
  /\ res.status = 200
  /\ Len(res.data) >= 1
  /\ nextUuid > Len(events)

\* C5: every update or delete of a persisted event through the model fails
\* with an immutability error and leaves the store unchanged.
C5_StoreRejectsMutation ==
  [][req'.op = "store" => IncludesImmutable(res'.message) /\ events' = events]_vars

\* the step answers a POST /ingest
IngestStep == Idle /\ req'.op = "ingest"

\* the step answers a POST /ingest/batch
BatchStep == Idle /\ req'.op = "batch"

IsFuture(body, clock) == body.timestamp.kind = "date" /\ body.timestamp.t > clock

FutureTimestampError(response) ==
  /\ response.status = 400
  /\ response.field = "timestamp"
  /\ response.message = "Timestamp cannot be in the future"

\* C6 as stated: every POST /ingest of a draft whose timestamp is later than
\* the clock is answered with the future-timestamp error, and nothing is
\* persisted.
C6_FutureAlwaysFutureError ==
  [][IngestStep /\ IsFuture(req'.body, now)
       => FutureTimestampError(res') /\ events' = events]_vars

\* C6: every POST /ingest of a draft whose timestamp is later than the clock
\* is answered 400 and persists nothing; the error is the future-timestamp
\* error whenever the draft with a current timestamp would pass validation.
C6_FutureRejected ==
  [][IngestStep /\ IsFuture(req'.body, now)
       => /\ res'.status = 400
          /\ events' = events
          /\ validateEvent([req'.body EXCEPT !.timestamp = Date(now)], now).next
               => FutureTimestampError(res')]_vars

\* C6 witness: a draft whose only fault is its future timestamp was refused
\* while the store held an event
C6_Witness ==
  /\ req.op = "ingest"
  /\ IsFuture(req.body, now)
  /\ req.body.type \in VALID_EVENT_TYPES
  /\ FutureTimestampError(res)
  /\ Len(events) >= 1

\* C7: every POST /ingest of a draft whose timestamp is more than one year
\* before the clock is refused with the out-of-range error of
\* validateEventTime, and nothing is persisted.
C7_OldTimestampRejected ==
  [][(/\ IngestStep
      /\ req'.body.timestamp.kind = "date"
      /\ req'.body.timestamp.t < now - ONE_YEAR)
       => /\ res'.status = 400
          /\ res'.message = validateEventTime(req'.body.timestamp.t, now).error
          /\ events' = events]_vars

\* the enum fields of a draft and the field names the validator reports
EnumFields == {"type", "platform", "subject.content_type", "metadata.source"}

EnumValue(body, f) ==
  CASE f = "type" -> body.type
    [] f = "platform" -> body.platform
    [] f = "subject.content_type" ->
         IF body.subject.present THEN body.subject.content_type ELSE ABSENT
    [] f = "metadata.source" ->
         IF body.metadata.present THEN body.metadata.source ELSE ABSENT

EnumSet(f) ==
  CASE f = "type" -> VALID_EVENT_TYPES
    [] f = "platform" -> VALID_PLATFORMS
    [] f = "subject.content_type" -> VALID_CONTENT_TYPES
    [] f = "metadata.source" -> VALID_SOURCES

\* the enum fields of the draft that hold a value outside their closed set
OutsideEnum(body) ==
  {f \in EnumFields : EnumValue(body, f) # ABSENT /\ EnumValue(body, f) \notin EnumSet(f)}

\* the draft with the field f set to a member of its closed set
WithEnumValue(body, f) ==
  CASE f = "type" -> [body EXCEPT !.type = "like"]
    [] f = "platform" -> [body EXCEPT !.platform = "twitter"]
    [] f = "subject.content_type" -> [body EXCEPT !.subject.content_type = "post"]
    [] f = "metadata.source" -> [body EXCEPT !.metadata.source = "api"]

C9_BatchSizeRejected ==
  [][BatchStep /\ req'.isArray /\ (req'.size = 0 \/ req'.size > MAX_BATCH_EVENTS)
       => /\ res'.status = 400
          /\ res'.successful = <<>> /\ res'.failed = <<>>
          /\ lookups' = 0
          /\ itemLog' = <<>>
          /\ nextUuid' = nextUuid
          /\ events' = events]_vars

\* C9 witness: a batch over the limit was refused while the store held an
\* event
C9_Witness ==
  /\ req.op = "batch"
  /\ req.isArray
  /\ req.size > MAX_BATCH_EVENTS
  /\ res.status = 400
  /\ Len(events) >= 1

\* the positions of the batch the loop put into the list `list`
Logged(log, list) == {j \in 1..Len(log) : log[j][2] = list}

\* C10: in every batch that is processed each item ends in exactly one of
\* `successful` and `failed`, the two lists together are as long as the
\* batch, and the ids of `successful` are, in order, the ids of the events the
\* batch added to the store.
C10_BatchPartition ==
  [][BatchStep /\ res'.status = 201
       => /\ Len(res'.successful) + Len(res'.failed) = req'.size
          /\ Len(itemLog') = req'.size
          /\ \A k \in 1..req'.size :
               Cardinality({j \in 1..Len(itemLog') : itemLog'[j][1] = k}) = 1
          /\ Cardinality(Logged(itemLog', "successful")) = Len(res'.successful)
          /\ Cardinality(Logged(itemLog', "failed")) = Len(res'.failed)
          /\ IsPrefix(events, events')
          /\ Len(events') = Len(events) + Len(res'.successful)
          /\ \A j \in 1..Len(res'.successful) :
               events'[Len(events) + j].id = res'.successful[j]]_vars

\* C10 witness: a processed batch with an item in each list
C10_Witness ==
  /\ req.op = "batch"
  /\ res.status = 201
  /\ Len(res.successful) >= 1
  /\ Len(res.failed) >= 1

\* a batch item that POST /ingest would accept and that names no id
ValidItem(item, clock) == validateEvent(item, clock).next /\ item.id = NoId

\* C11: in every batch of 1 to 1000 drafts, whatever the other items are
\* (malformed, failing, or missing a top-level required field), the batch is
\* processed and every valid item is ingested and reported as successful.
C11_BatchIsolation ==
  [][BatchStep /\ req'.isArray /\ req'.size >= 1 /\ req'.size <= MaxBatchLen
       => /\ res'.status = 201
          /\ Len(res'.successful)
               >= Cardinality({k \in 1..req'.size : ValidItem(req'.items[k], now)})
          /\ Len(events') - Len(events)
               >= Cardinality({k \in 1..req'.size : ValidItem(req'.items[k], now)})]_vars

\* C12: every webhook POST is answered with status 200.
C12_WebhookPostAnswered200 ==
  req.op = "webhook" /\ req.method = "POST" => res.status = 200

\* C13: the attributed user of an event persisted by POST /ingest is the
\* user the owner lookup finds, and is unset when the lookup misses, whatever
\* pinscore_user_id the draft carried.
C13_AttributionFromLookupOnly ==
  req.op = "ingest" /\ res.status = 201
    => Last(events).pinscore_user_id
         = UserFindOne(PlatformIdPath(req.body.platform),
                       req.body.subject.owner_platform_id)

\* C14: a POST /ingest of a valid draft during which the owner lookup fails
\* is answered 201 and the event is persisted with attribution unset.
C14_LookupFailureSwallowed ==
  (/\ req.op = "ingest"
   /\ req.directory = "down"
   /\ ValidItem(req.body, now)
   /\ req.body.pinscore_user_id = NoUser)
    => /\ res.status = 201
       /\ Len(events) >= 1
       /\ Last(events).id = res.event_id
       /\ Last(events).pinscore_user_id = NoUser

\* the events of the store attributed to the user u
AttributedTo(u) == {i \in 1..Len(events) : events[i].pinscore_user_id = u}

\* C15: once POST /ingest has persisted events attributed to a user and the
\* handler has finished, the rollup counters of that user have been updated:
\* total count, per-platform breakdown and last-ingested timestamp.
C15_RollupUpdated ==
  Idle => \A u \in UserIds :
            AttributedTo(u) # {}
              => /\ eventStats[u].totalEvents >= 1
                 /\ \E i \in AttributedTo(u) :
                      eventStats[u].platformBreakdown[events[i].platform] >= 1
                 /\ eventStats[u].lastEventIngested # NoTime

\* the caller-supplied verification token equals the configured secret
TokenMatches(query, environment) ==
  /\ environment.INSTAGRAM_VERIFY_TOKEN # ABSENT
  /\ query.verify_token = environment.INSTAGRAM_VERIFY_TOKEN

\* C16: a GET on the Instagram webhook is answered 200 with the challenge
\* only when the caller-supplied token equals the configured secret; with a
\* missing token, a wrong token or no configured secret the answer is not 200;
\* in either case no user is looked up and nothing is persisted.
C16_InstagramVerifyToken ==
  [][Idle /\ req'.op = "webhook" /\ req'.platform = "instagram" /\ req'.method = "GET"
       => /\ res'.status = 200 => TokenMatches(req'.query, env)
          /\ res'.status = 200 => res'.message = req'.query.challenge
          /\ lookups' = 0
          /\ events' = events]_vars

\* the nested fields a draft must have, by the name the validator reports
NestedMissing(body) ==
  (IF body.actor.present
      /\ (body.actor.platform_user_id = ABSENT \/ body.actor.username = ABSENT)
     THEN {"actor"} ELSE {})
  \cup (IF body.subject.present
           /\ (\/ body.subject.content_id = ABSENT
               \/ body.subject.content_type = ABSENT
               \/ body.subject.owner_platform_id = ABSENT)
          THEN {"subject"} ELSE {})
  \cup (IF body.metrics.present /\ body.metrics.count.kind # "number"
          THEN {"metrics.count"} ELSE {})
  \cup (IF body.metadata.present /\ body.metadata.source = ABSENT
          THEN {"metadata.source"} ELSE {})

\* C17: the field POST /ingest reports is one of the earliest failing phase:
\* (1) a missing top-level field, else (2) an enum field outside its set, else
\* (3) a missing nested field, else (4) the timestamp.
C17_PhaseOrder ==
  req.op = "ingest" /\ ~validateEvent(req.body, now).next
    => /\ res.status = 400
       /\ res.field \in
            IF MissingFields(req.body) # {} THEN MissingFields(req.body)
            ELSE IF OutsideEnum(req.body) # {} THEN OutsideEnum(req.body)
            ELSE IF NestedMissing(req.body) # {} THEN NestedMissing(req.body)
            ELSE {"timestamp"}

\* C18: the metrics.count of every persisted event is an integer greater
\* than or equal to 0.
C18_CountNonNegative ==
  \A i \in 1..Len(events) : events[i].metrics.count >= 0

\* every event of coll has its four enum fields inside their closed sets
EnumsClosed(coll) ==
  \A i \in 1..Len(coll) :
    /\ coll[i].type \in VALID_EVENT_TYPES
    /\ coll[i].platform \in VALID_PLATFORMS
    /\ coll[i].subject.content_type \in VALID_CONTENT_TYPES
    /\ coll[i].metadata.source \in VALID_SOURCES

\* C19: whichever route creates it (POST /ingest, batch, webhook, API pull),
\* every event of the store has type, platform, subject.content_type and
\* metadata.source inside their closed sets; a draft with an unknown value is
\* refused (POST /ingest) or reported as failed (batch) and adds no event.
C19_EnumsClosedOnAllPaths ==
  [][/\ EnumsClosed(events')
     /\ IngestStep /\ OutsideEnum(req'.body) # {}
          => res'.status >= 400 /\ events' = events
     /\ BatchStep /\ res'.status = 201
          => /\ \A k \in 1..req'.size :
                  OutsideEnum(req'.items[k]) # {} => <<k, "failed">> \in Range(itemLog')
             /\ Len(events') - Len(events)
                  <= Cardinality({k \in 1..req'.size : OutsideEnum(req'.items[k]) = {}})
    ]_vars

\* C19 witness: an Instagram notification whose media_type is outside the
\* content types was refused by the schema while the store held an event
C19_Witness ==
  /\ req.op = "webhook"
  /\ req.platform = "instagram"
  /\ req.method = "POST"
  /\ \E k \in 1..Len(req.body.entry) :
       \E c \in 1..Len(req.body.entry[k].changes) :
         req.body.entry[k].changes[c].value.media_type = "IMAGE"
  /\ res.status = 500
  /\ Len(events) >= 1
  /\ EnumsClosed(events)

\* the adapter's own type map, by platform
eventTypeMap(platform) ==
  CASE platform = "twitter" -> TwitterEventTypeMap
    [] platform = "instagram" -> InstagramEventTypeMap
    [] platform = "youtube" -> YouTubeEventTypeMap
    [] platform = "tiktok" -> TikTokEventTypeMap
    [] platform = "facebook" -> FacebookEventTypeMap
    [] platform = "threads" -> ThreadsEventTypeMap

\* C20: whenever an adapter accepts a raw payload, the draft's type is the
\* mapped canonical type if the engagement type is in the adapter's type map
\* and `engagement` otherwise, and the Instagram adapter gives content type
\* `post` to a media type that is not in its content-type map.
C20_AdapterFallbacks ==
  (req.op = "normalize" /\ res.status = 0) =>
    LET platform == toLowerCase(req.raw.platform)
        map == eventTypeMap(platform)
    IN /\ req.body.type = IF req.raw.engagement_type \in DOMAIN map
                            THEN map[req.raw.engagement_type]
                          ELSE "engagement"
       /\ (platform = "instagram" /\ req.raw.content.media_type \notin DOMAIN contentTypeMap)
            => req.body.subject.content_type = "post"

\* the mandatory raw fields: the actor object, its id and username, the
\* content object, its id and its owner id
MandatoryMissing(rawData) ==
  \/ ~rawData.user.present
  \/ rawData.user.id = ABSENT
  \/ rawData.user.username = ABSENT
  \/ ~rawData.content.present
  \/ rawData.content.id = ABSENT
  \/ rawData.content.owner = ABSENT

\* C21: a raw payload with a mandatory raw field absent is answered 400 by the
\* normalizer and no draft is handed to the next middleware.
C21_MissingRawFieldIs400 ==
  (req.op = "normalize" /\ MandatoryMissing(req.raw))
    => res.status = 400 /\ "body" \notin DOMAIN req

\* C28: whenever an adapter accepts a payload that carries a source time, as
\* an ISO-8601 string, as Unix seconds or as Unix milliseconds, the draft's
\* timestamp is the instant the source encoded.
C28_SourceTimeKept ==
  (req.op = "normalize" /\ res.status = 0
     /\ req.raw.content.created.enc \in {"iso", "seconds", "millis"})
    => req.body.timestamp = Date(req.raw.content.created.t)

\* events persisted for the item k of the request in slot s
PersistedFor(s, k) == {i \in 1..Len(origin) : origin[i] = <<s, k>>}

\* C22: under every interleaving of overlapping POST /ingest and POST
\* /ingest/batch requests no two stored events share an id, and every draft has
\* at most one outcome: it is stored once and reported successful with the
\* stored id, or it is reported failed and not stored; a request that has been
\* answered has an outcome for each of its drafts.
C22_ConcurrentOutcomes ==
  /\ UniqueIds(events)
  /\ \A s \in Slots :
       LET slot == inflight[s]
       IN /\ slot.pc = "done" /\ slot.status = 201
               => \A k \in 1..Len(slot.items) : \E o \in Range(slot.log) : o[1] = k
          /\ slot.pc = "done" /\ slot.op = "ingest" /\ slot.status # 201
               => PersistedFor(s, 1) = {}
          /\ \A k \in 1..Len(slot.items) :
               /\ Cardinality(PersistedFor(s, k)) <= 1
               /\ Cardinality({j \in 1..Len(slot.log) : slot.log[j][1] = k}) <= 1
               /\ <<k, "successful">> \in Range(slot.log)
                    <=> PersistedFor(s, k) # {}
               /\ <<k, "failed">> \in Range(slot.log) => PersistedFor(s, k) = {}
               /\ \A i \in PersistedFor(s, k) : events[i].id \in Range(slot.successful)
          /\ Len(slot.successful) = Cardinality({j \in 1..Len(slot.log) :
                                                   slot.log[j][2] = "successful"})

\* C22 witness: a batch and a single ingestion overlapped; the single draft,
\* carrying the id that the batch's second item carries too, was stored between
\* the two items of the batch, so the batch reports its second item failed
C22_Witness ==
  /\ inflight[1].op = "batch" /\ inflight[1].pc = "done"
  /\ inflight[1].log = << <<1, "successful">>, <<2, "failed">> >>
  /\ inflight[2].op = "ingest" /\ inflight[2].status = 201
  /\ origin = << <<1, 1>>, <<2, 1>> >>
  /\ events[2].id = -1

\* the path of the user document that holds the user's identifier on a
\* platform
UserPlatformPath(platform) ==
  IF platform = "youtube" THEN "youtube.channelId" ELSE platform \o ".id"

\* C23: when POST /ingest stores an event whose platform is one of the six and
\* a user's identifier on that platform equals the draft's
\* subject.owner_platform_id, the stored event is attributed to that user.
C23_OwnerAttributed ==
  (req.op = "ingest" /\ res.status = 201 /\ req.body.platform \in VALID_PLATFORMS)
    => \A u \in UserIds :
         Users[u][UserPlatformPath(req.body.platform)]
             = req.body.subject.owner_platform_id
           => Last(events).pinscore_user_id = u

\* C24: every stored event, whichever route created it, has a timestamp that
\* is not later than its ingested_at and not more than one year earlier.
C24_TemporalBoundsOnAllPaths ==
  \A i \in 1..Len(events) :
    /\ events[i].timestamp <= events[i].ingested_at
    /\ events[i].timestamp >= events[i].ingested_at - ONE_YEAR

\* C25: when the save of POST /ingest rejects the document for a validation
\* reason the answer is 400, and a 500 is answered only for a storage fault:
\* a duplicate id or a directory that cannot be reached.
C25_SaveValidationIs400 ==
  req.op = "ingest"
    => /\ (req.directory = "up" /\ validateEvent(req.body, now).next
             /\ SchemaErrors(Attribute(req.body)) # {})
            => res.status = 400
       /\ res.status = 500
            => req.directory = "down" \/ DuplicateKey(req.body.id, events)

\* C26: a GET request to a webhook endpoint, with or without the challenge
\* parameter and whatever its body, stores no event.
C26_GetStoresNothing ==
  [][(Idle /\ req'.op = "webhook" /\ req'.method = "GET") => events' = events]_vars

\* the handler of the webhook request, run on the collection coll
Delivered(request, uuid, clock, coll) ==
  CASE request.platform = "youtube" ->
         handleYouTubeWebhook(request.method, request.query, request.body,
                              uuid, clock, coll)
    [] request.platform = "instagram" ->
         handleInstagramWebhook(request.method, request.query, request.body,
                                env.INSTAGRAM_VERIFY_TOKEN, uuid, clock, coll)
    [] request.platform = "twitter" ->
         handleTwitterWebhook(request.method, request.query, request.body,
                              env.TWITTER_CONSUMER_SECRET, uuid, clock, coll)

\* C27: what a webhook notification adds to the store does not depend on what
\* the store holds: the events a delivery appends are those it would append to
\* an empty store, also when events with the same platform and raw_event_id
\* are stored already, and their ids differ from every stored id.
C27_RedeliveryNotDeduplicated ==
  [][(Idle /\ req'.op = "webhook" /\ req'.method = "POST")
       => /\ events' = events \o Delivered(req', nextUuid, now, <<>>).acc.coll
          /\ \A j \in (Len(events) + 1)..Len(events') :
               events'[j].id \notin StoredIds(events)]_vars

\* C27 witness: the Twitter notification has been delivered twice and the
\* store holds two events for it
C27_Witness ==
  /\ req.op = "webhook" /\ req.platform = "twitter" /\ req.method = "POST"
  /\ res.status = 200
  /\ Len(events) = 2
  /\ events[1].id # events[2].id
  /\ events[1].platform = "twitter" /\ events[2].platform = "twitter"
  /\ events[1].metadata.source = "webhook" /\ events[2].metadata.source = "webhook"
  /\ events[1].metadata.raw_event_id # ABSENT
  /\ events[1].metadata.raw_event_id = events[2].metadata.raw_event_id
  /\ Len(req.body.favorite_events) = 1

\* the content owners a webhook notification names
NotificationOwners(request) ==
  CASE request.platform = "youtube" -> {request.body.channelId}
    [] request.platform = "instagram" ->
         IF request.body.object = "instagram"
           THEN {request.body.entry[k].id : k \in DOMAIN request.body.entry}
         ELSE {}
    [] OTHER ->
         {request.body.favorite_events[k].favorited_status.user_id_str :
            k \in DOMAIN request.body.favorite_events}

\* C29: every event a webhook handler (YouTube, Instagram, Twitter) stores is
\* attributed to the user whose identifier on that platform is the event's
\* content owner; a notification all of whose owners match no user of the
\* directory stores nothing and is answered 200.
C29_WebhookEventsAttributed ==
  [][(Idle /\ req'.op = "webhook")
       => LET path == UserPlatformPath(req'.platform)
              owners == NotificationOwners(req')
          IN /\ \A j \in (Len(events) + 1)..Len(events') :
                  /\ events'[j].pinscore_user_id # NoUser
                  /\ events'[j].pinscore_user_id
                       = UserFindOne(path, events'[j].subject.owner_platform_id)
             /\ (/\ owners # {}
                 /\ \A o \in owners : o # ABSENT /\ UserFindOne(path, o) = NoUser)
                  => events' = events /\ res'.status = 200]_vars

\* a Twitter notification of two favorites, the second of an unknown account,
\* answered 200 with the first favorite stored for its owner
C29_Witness ==
  /\ req.op = "webhook" /\ req.platform = "twitter" /\ req.method = "POST"
  /\ Len(req.body.favorite_events) = 2
  /\ UserFindOne("twitter.id",
                 req.body.favorite_events[2].favorited_status.user_id_str) = NoUser
  /\ res.status = 200
  /\ Len(events) = 1
  /\ events[1].platform = "twitter" /\ events[1].pinscore_user_id # NoUser

\* what one favorite does when the Twitter handler reaches it
TwitterItems(favorites, clock) ==
  [k \in DOMAIN favorites |->
     LET r == TwitterFavorite(Running(<<>>, 0), favorites[k], clock)
     IN [throws |-> r.thrown, stores |-> Len(r.coll) = 1]]

\* what each change of the entries from k on does when the Instagram handler
\* reaches it, in the order of processing
RECURSIVE InstagramItems(_, _, _)
InstagramItems(entry, k, clock) ==
  IF k > Len(entry) THEN <<>>
  ELSE LET user == UserFindOne("instagram.id", entry[k].id)
       IN [j \in DOMAIN entry[k].changes |->
             IF user = NoUser THEN [throws |-> FALSE, stores |-> FALSE]
             ELSE LET r == InstagramChange(Running(<<>>, 0), entry[k].id, user,
                                           entry[k].changes[j], clock)
                  IN [throws |-> r.thrown, stores |-> Len(r.coll) = 1]]
          \o InstagramItems(entry, k + 1, clock)

\* the items of a multi-item notification
WebhookItems(request, clock) ==
  IF request.platform = "twitter"
    THEN TwitterItems(request.body.favorite_events, clock)
  ELSE IF request.body.object = "instagram"
    THEN InstagramItems(request.body.entry, 1, clock)
  ELSE <<>>

\* C30: a multi-item webhook notification (Instagram entries/changes, Twitter
\* favorite_events) is not processed atomically: when item k is the first that
\* fails, the store keeps what it held, gains exactly the events of the items
\* before k, gains nothing for the items after k, and the handler answers with
\* its error response.
C30_MultiItemNotAtomic ==
  [][(/\ Idle /\ req'.op = "webhook" /\ req'.method = "POST"
      /\ req'.platform \in {"instagram", "twitter"})
       => LET items == WebhookItems(req', now)
              failing == {k \in DOMAIN items : items[k].throws}
              first == CHOOSE k \in failing : \A j \in failing : k <= j
          IN failing # {}
               => /\ res' = WebhookError
                  /\ SubSeq(events', 1, Len(events)) = events
                  /\ Len(events') = Len(events)
                       + Cardinality({j \in 1..(first - 1) : items[j].stores})]_vars

\* an Instagram notification of two changes answered 500 with the first change
\* stored and the second refused
C30_Witness ==
  /\ req.op = "webhook" /\ req.platform = "instagram" /\ req.method = "POST"
  /\ Len(req.body.entry) = 1 /\ Len(req.body.entry[1].changes) = 2
  /\ res = WebhookError
  /\ Len(events) = 1 /\ events[1].platform = "instagram"

====
